---- MODULE Spec2Model ----
(***************************************************************************)
(* LoRaSimMac (loraDir_mac.py): the per-node MAC state machine of          *)
(* transmit(), the gateway reception model of checkcollision() and the     *)
(* cooperative discrete-event scheduler that runs them.                    *)
(*                                                                         *)
(* Time is counted in microseconds, so that every duration the program     *)
(* computes for sub-GHz LoRa (a quarter symbol is 2^sf*250/bw us) is an    *)
(* integer.  RSSI and sensitivities are counted in quarter dB.             *)
(***************************************************************************)
EXTENDS Integers, Sequences, FiniteSets, TLC

\* ------------------------------------------------------------------------
\* Bounds of the model
\* ------------------------------------------------------------------------
\* number of nodes (command line argument <nodes>)
NumNodes == 2
\* simulated time (command line argument <simtime>), in DIFS of the
\* experiment 4 radio setting
SimDifs == 13

\* ------------------------------------------------------------------------
\* Program constants
\* ------------------------------------------------------------------------
dataPacketType == 1
rtsPacketType == 2

schedule_tx == 0
want_transmit == 1
start_CA == 2
start_phase1_listen == 3
start_phase2_backoff == 4
start_phase2_rts == 5
start_phase2_listen == 6
start_phase3_backoff == 7
start_phase3_transmit == 8
start_nav == 9

exp4SF == 12
maxBSReceives == 8
\* powerThreshold of powerCollision, 6 dB, in quarter dB
powerThreshold == 24
\* RTS payload length set by setPacketType
rtsLength == 5

NoNode == 0 - 1

Max(a, b) == IF a >= b THEN a ELSE b
Abs(a) == IF a >= 0 THEN a ELSE 0 - a
\* math.ceil(a / b) for b > 0
CeilDiv(a, b) == 0 - ((0 - a) \div b)
Pow2(k) == 2 ^ k

\* ------------------------------------------------------------------------
\* airtime (sub-GHz branch, lora24GHz = False), in microseconds
\* ------------------------------------------------------------------------
\* a quarter of Tsym = (2.0**sf)/bw ms
QuarterSym(sf, bw) == (Pow2(sf) * 250) \div bw

\* variant: the header is explicit for every spreading factor
airtimeExplicitHeader(sf, cr, pl, bw) ==
    LET DE == IF bw = 125 /\ sf \in {11, 12} THEN 1 ELSE 0
        H == 0
        payloadSymbNB ==
            8 + Max(CeilDiv(8 * pl - 4 * sf + 28 + 16 - 20 * H, 4 * (sf - 2 * DE))
                        * (cr + 4), 0)
    IN  (49 + 4 * payloadSymbNB) * QuarterSym(sf, bw)

airtime(sf, cr, pl, bw) ==
    LET DE == IF bw = 125 /\ sf \in {11, 12} THEN 1 ELSE 0
        H == IF sf = 6 THEN 1 ELSE 0
        payloadSymbNB ==
            8 + Max(CeilDiv(8 * pl - 4 * sf + 28 + 16 - 20 * H, 4 * (sf - 2 * DE))
                        * (cr + 4), 0)
    IN  (49 + 4 * payloadSymbNB) * QuarterSym(sf, bw)

\* myPacket.Tpream = (Npream + 4.25) * symTime with Npream = 8
TpreamOf(sf, bw) == 49 * QuarterSym(sf, bw)

\* sensi[sf - 6, [125,250,500].index(bw) + 1], in quarter dB
sensi(sf, bw) ==
    LET row == CASE sf = 6 -> <<0 - 472, 0 - 460, 0 - 444>>
                 [] sf = 7 -> <<0 - 506, 0 - 497, 0 - 483>>
                 [] sf = 8 -> <<0 - 509, 0 - 507, 0 - 496>>
                 [] sf = 9 -> <<0 - 525, 0 - 513, 0 - 510>>
                 [] sf = 10 -> <<0 - 531, 0 - 521, 0 - 515>>
                 [] sf = 11 -> <<0 - 538, 0 - 531, 0 - 515>>
                 [] OTHER -> <<0 - 533, 0 - 529, 0 - 529>>
        col == CASE bw = 125 -> 1 [] bw = 250 -> 2 [] OTHER -> 3
    IN  row[col]

\* ------------------------------------------------------------------------
\* Configuration: the module-level settings and command line arguments
\* ------------------------------------------------------------------------
\* DIFS of the experiment 4 radio setting (SF12, BW125)
Difs == TpreamOf(exp4SF, 125)

\* the settings of the source, with the windows and retry limits shortened
BaseCfg ==
    [nrNodes |-> NumNodes,
     CA |-> TRUE, CA1 |-> FALSE, CA2 |-> FALSE,
     experiment |-> 4, full_collision |-> TRUE,
     check_busy |-> TRUE, check_busy_rts |-> TRUE, CCA_prob |-> 50,
     n_retry |-> 2, n_retry_rts |-> 1,
     Wbusy_min |-> 1, Wbusy_BE |-> 0, Wbusy_maxBE |-> 1,
     Wbusy_exp_backoff |-> TRUE, Wbusy_add_max_toa |-> FALSE,
     P |-> 0, WL |-> 1, W2 |-> 1, W3 |-> 1, Wnav |-> 0, W2afterNAV |-> 1,
     packetLength |-> 10, max_payload_size |-> 10,
     avgSendTime |-> 2000000,
     targetSentPacket |-> 1]

\* CA with a fully reliable CCA and an RTS retry count that is never
\* decremented (n_retry_rts = 0)
CfgCaReliable == [BaseCfg EXCEPT !.CCA_prob = 100, !.n_retry_rts = 0]
\* the same with the negative limit of the header (n_retry_rts = -1)
CfgCaUnlimited == [BaseCfg EXCEPT !.CCA_prob = 100, !.n_retry_rts = 0 - 1]
\* CA with an unreliable CCA, one RTS retry and a random extension of NAV
CfgCaLossy == [BaseCfg EXCEPT !.Wnav = 1]
\* carrier sense only, fully reliable CCA
CfgCsReliable == [BaseCfg EXCEPT !.CA = FALSE, !.CCA_prob = 100]
\* carrier sense only, unreliable CCA
CfgCsLossy == [BaseCfg EXCEPT !.CA = FALSE]

Configs == {CfgCaReliable, CfgCaUnlimited, CfgCaLossy, CfgCsReliable, CfgCsLossy}

\* pure ALOHA: no CA and no carrier sense
CfgAloha == [BaseCfg EXCEPT !.CA = FALSE, !.check_busy = FALSE]

\* a CCA that cannot detect activity, with and without CA
CfgCaZeroProb == [BaseCfg EXCEPT !.CCA_prob = 0]
CfgCsZeroProb == [BaseCfg EXCEPT !.CA = FALSE, !.CCA_prob = 0]
\* CA without any CCA
CfgCaNoCheck == [BaseCfg EXCEPT !.check_busy = FALSE, !.check_busy_rts = FALSE]

\* the CA1 variant with a reliable CCA: main sets P = 0 and WL = CA1_WL = 2*WL
CfgCa1 == [BaseCfg EXCEPT !.CA1 = TRUE, !.P = 0, !.WL = 2, !.CCA_prob = 100]

\* the CA2 variant with a reliable CCA: main sets P = 100 and WL = CA2_WL
CfgCa2 == [BaseCfg EXCEPT !.CA2 = TRUE, !.P = 100, !.WL = 2, !.CCA_prob = 100]

\* a single node, with and without CA
CfgCaSingle == [CfgCaLossy EXCEPT !.nrNodes = 1]
CfgCsSingle == [CfgCsLossy EXCEPT !.nrNodes = 1]

\* the simplified collision test (command line argument [collision] = 0),
\* without CA and with a CA whose CCA detects nothing
CfgCsSimple == [CfgCsLossy EXCEPT !.full_collision = FALSE]
CfgCaSimple == [CfgCaZeroProb EXCEPT !.full_collision = FALSE]

\* runs that end at the first processed DATA packet (targetSentPacket = 0)
CfgCaShort == [CfgCaReliable EXCEPT !.targetSentPacket = 0]
CfgCsShort == [CfgCsReliable EXCEPT !.targetSentPacket = 0]

\* three nodes with CA and a CCA that detects nothing
CfgCaThree == [CfgCaZeroProb EXCEPT !.nrNodes = 3]

\* the settings of the second family of runs
VariantConfigs ==
    {CfgAloha, CfgCaLossy, CfgCsLossy, CfgCaZeroProb, CfgCsZeroProb, CfgCaNoCheck,
     CfgCa1, CfgCaSingle, CfgCsSingle, CfgCsSimple, CfgCaSimple,
     CfgCaShort, CfgCsShort, CfgCaThree, CfgCa2}

\* RSSI at the gateway (quarter dB): Prx = Ptx - GL - Lpl for a far and a
\* near position inside maxDist; both lie above every sensitivity of the
\* SF12 row, and they differ by more than powerThreshold
farRssi == 0 - 480
nearRssi == 0 - 440
\* the draws of random.randint(1,100) taken for the CCA reliability test
CcaDraws == {1, 100}
\* the draws of random.randint(0,100) taken for my_P
MyPDraws == {0, 100}
\* the draws taken for transmit_wait (uniform from 2000 ms on with CA,
\* exponential without): 2000 ms, and for node 0 also one DIFS more, so that
\* the tasks wake up both at the same instant and apart, in either order
WaitChoices(n) ==
    IF n = 0 THEN {2000000, 2000000 + Difs} ELSE {2000000}

VARIABLES
    cfg,               \* the settings of this run
    now,               \* env.now
    queue,             \* the scheduler's event queue: <<[t, n]>>, by time then insertion
    cur,               \* the node whose task is running, or NoNode
    pc,                \* per node: where its task resumes
    node,              \* per node: the myNode fields
    packet,            \* per node: the myPacket fields
    packetsAtBS,       \* the gateway in-flight list (node ids)
    channel_busy_rts,
    channel_busy_data,
    nrLost, nrCollisions, nrReceived, nrProcessed,
    nrRTSLost, nrRTSCollisions, nrRTSReceived, nrRTSProcessed

vars == <<cfg, now, queue, cur, pc, node, packet, packetsAtBS,
          channel_busy_rts, channel_busy_data,
          nrLost, nrCollisions, nrReceived, nrProcessed,
          nrRTSLost, nrRTSCollisions, nrRTSReceived, nrRTSProcessed>>

gwCounters == <<nrLost, nrCollisions, nrReceived, nrProcessed>>
rtsCounters == <<nrRTSLost, nrRTSCollisions, nrRTSReceived, nrRTSProcessed>>
channel == <<channel_busy_rts, channel_busy_data>>

\* env.run(until=simtime): events at or after simtime are not processed
simtime == SimDifs * Difs

\* the nodes of the run (command line argument <nodes>)
Nodes == 0 .. (cfg.nrNodes - 1)

\* the placements taken: every node far, or node 0 near and the others far
RssiProfiles ==
    {[n \in Nodes |-> farRssi],
     [n \in Nodes |-> IF n = 0 THEN nearRssi ELSE farRssi]}

\* ------------------------------------------------------------------------
\* Construction
\* ------------------------------------------------------------------------
\* myPacket.__init__ once the experiment has fixed the radio setting rs and
\* the carrier frequency
myPacket(n, plen, rs, freq, rssi) ==
    [nodeid |-> n, sf |-> rs.sf, bw |-> rs.bw, cr |-> rs.cr, freq |-> freq,
     rssi |-> rssi,
     data_len |-> plen,
     Tpream |-> TpreamOf(rs.sf, rs.bw),
     ptype |-> dataPacketType,
     pl |-> plen,
     rectime |-> airtime(rs.sf, rs.cr, plen, rs.bw),
     collided |-> 0, processed |-> 0, lost |-> FALSE, addTime |-> 0]

\* myPacket.__init__ for experiment 4 (SF exp4SF, BW125, CR4/5, 860 MHz)
InitPacket(c, n, rssi) ==
    myPacket(n, c.packetLength, [sf |-> exp4SF, bw |-> 125, cr |-> 1], 860000000, rssi)

\* myNode.__init__
InitNode(c) ==
    [cycle |-> 0, n_data_sent |-> 0, n_rts_sent |-> 0,
     ca_state |-> schedule_tx, want_transmit_time |-> 0,
     my_P |-> 0, backoff |-> 0,
     receive_rts |-> FALSE, receive_rts_time |-> 0, receive_rts_from |-> 0 - 1,
     receive_data |-> FALSE, receive_data_time |-> 0, receive_data_from |-> 0 - 1,
     nav |-> 0, cca |-> FALSE, n_cca |-> 0, n_busy_rts |-> 0, n_busy_data |-> 0,
     n_retry |-> c.n_retry,
     n_retry_rts |-> IF c.n_retry_rts > 0 THEN c.n_retry_rts ELSE 1,
     n_aborted |-> 0, W2 |-> c.W2, latency |-> 0, Wbusy_BE |-> c.Wbusy_BE]

\* the main program: the nodes are created and their tasks started in id
\* order, so the tasks first run at time 0 in id order
InitRun ==
    /\ now = 0
    /\ queue = [i \in 1 .. cfg.nrNodes |-> [t |-> 0, n |-> i - 1]]
    /\ cur = NoNode
    /\ pc = [n \in Nodes |-> "loop"]
    /\ node = [n \in Nodes |-> InitNode(cfg)]
    /\ \E r \in RssiProfiles :
           packet = [n \in Nodes |-> InitPacket(cfg, n, r[n])]
    /\ packetsAtBS = <<>>
    /\ channel_busy_rts = FALSE
    /\ channel_busy_data = FALSE
    /\ nrLost = 0 /\ nrCollisions = 0 /\ nrReceived = 0 /\ nrProcessed = 0
    /\ nrRTSLost = 0 /\ nrRTSCollisions = 0 /\ nrRTSReceived = 0
    /\ nrRTSProcessed = 0

Init == cfg \in Configs /\ InitRun

InitVariants == cfg \in VariantConfigs /\ InitRun

\* ------------------------------------------------------------------------
\* The discrete-event scheduler (simpy)
\* ------------------------------------------------------------------------
\* a timeout scheduled at time t runs after every event already scheduled
\* for a time <= t
Insert(q, t, n) ==
    LET k == Cardinality({i \in 1 .. Len(q) : q[i].t <= t})
    IN  SubSeq(q, 1, k) \o <<[t |-> t, n |-> n]>> \o SubSeq(q, k + 1, Len(q))

\* yield env.timeout(d): the running task suspends and resumes at label l
Yield(n, d, l) ==
    /\ queue' = Insert(queue, now + d, n)
    /\ cur' = NoNode
    /\ pc' = [pc EXCEPT ![n] = l]

\* an exception raised in the task of node n ends the run; e names it
Raise(n, e) ==
    /\ queue' = <<>>
    /\ cur' = NoNode
    /\ pc' = [pc EXCEPT ![n] = e]

\* env.timeout(d): a negative d raises ValueError
Timeout(n, d, l) == IF d < 0 THEN Raise(n, "negative_delay") ELSE Yield(n, d, l)

\* retry_rts_bin is built with n_retry_rts + 1 entries (none when that is
\* not positive); a list of length len takes the indices -len .. len - 1
retry_rts_bin_len == IF cfg.n_retry_rts + 1 > 0 THEN cfg.n_retry_rts + 1 ELSE 0

ListTakes(len, i) == 0 - len <= i /\ i < len

\* transmit_wait: the slot of the node in the current cycle with experiments
\* 6 and 7 (100 ms and 500 ms between nodes), else a draw
TransmitWaits(n) ==
    IF cfg.experiment = 6
    THEN {node[n].cycle * cfg.avgSendTime - now + n * 100000}
    ELSE IF cfg.experiment = 7
    THEN {node[n].cycle * cfg.avgSendTime - now + n * 500000}
    ELSE WaitChoices(n)

\* the running task goes on, without suspending, at label l
Goto(n, l) ==
    /\ pc' = [pc EXCEPT ![n] = l]
    /\ UNCHANGED <<queue, cur>>

\* env.step(): the earliest event is taken and its task resumed
Dispatch ==
    /\ cur = NoNode
    /\ queue # <<>>
    /\ Head(queue).t < simtime
    /\ now' = Head(queue).t
    /\ cur' = Head(queue).n
    /\ queue' = Tail(queue)
    /\ UNCHANGED <<cfg, pc, node, packet, packetsAtBS, channel, gwCounters,
                   rtsCounters>>

\* ------------------------------------------------------------------------
\* The collision evaluator
\* ------------------------------------------------------------------------
frequencyCollision(p1, p2) ==
    IF Abs(p1.freq - p2.freq) <= 120 /\ (p1.bw = 500 \/ p2.freq = 500) THEN TRUE
    ELSE IF Abs(p1.freq - p2.freq) <= 60 /\ (p1.bw = 250 \/ p2.freq = 250) THEN TRUE
    ELSE Abs(p1.freq - p2.freq) <= 30

sfCollision(p1, p2) == p1.sf = p2.sf

\* variant: a difference of exactly powerThreshold still destroys both
powerCollisionInclusive(p1, p2) ==
    IF Abs(p1.rssi - p2.rssi) <= powerThreshold THEN {p1.nodeid, p2.nodeid}
    ELSE IF p1.rssi - p2.rssi < powerThreshold THEN {p1.nodeid}
    ELSE {p2.nodeid}

\* the casualties, as node ids
powerCollision(p1, p2) ==
    IF Abs(p1.rssi - p2.rssi) < powerThreshold THEN {p1.nodeid, p2.nodeid}
    ELSE IF p1.rssi - p2.rssi < powerThreshold THEN {p1.nodeid}
    ELSE {p2.nodeid}

\* variant: no part of the preamble may be lost
timingCollisionNoMargin(p1, p2) ==
    LET p2_end == p2.addTime + p2.rectime
    IN  now < p2_end

\* p1 is the freshly arrived packet; Tpreamb = 2**sf/bw * (Npream - 5)
timingCollision(p1, p2) ==
    LET Tpreamb == 12 * QuarterSym(p1.sf, p1.bw)
        p2_end == p2.addTime + p2.rectime
        p1_cs == now + Tpreamb
    IN  p1_cs < p2_end

\* variant: the simplified test marks the arriving packet only
CasualtiesArrivingOnly(p, o) ==
    IF frequencyCollision(p, o) /\ sfCollision(p, o)
    THEN IF cfg.full_collision
         THEN IF timingCollision(p, o) THEN powerCollision(p, o) ELSE {}
         ELSE {p.nodeid}
    ELSE {}

\* the packets that the pair (arriving p, in-flight o) marks collided
Casualties(p, o) ==
    IF frequencyCollision(p, o) /\ sfCollision(p, o)
    THEN IF cfg.full_collision
         THEN IF timingCollision(p, o) THEN powerCollision(p, o) ELSE {}
         ELSE {p.nodeid, o.nodeid}
    ELSE {}

\* variant: only the first listening period takes hints
listeningPhase1Only(nd) == nd.ca_state = start_phase1_listen

listening(nd) == nd.ca_state \in {start_phase1_listen, start_phase2_listen}

\* variant: no hint is cancelled
checkcollisionKeepHints(n) ==
    LET p == packet[n]
        inflight == {packetsAtBS[i] : i \in 1 .. Len(packetsAtBS)}
        processing == Cardinality({o \in inflight : packet[o].processed = 1})
        hit == UNION {Casualties(p, packet[o]) : o \in inflight \ {n}}
        col == IF n \in hit THEN 1 ELSE 0
        pk == [m \in Nodes |->
                 [packet[m] EXCEPT
                    !.processed = IF m = n
                                  THEN (IF processing > maxBSReceives THEN 0 ELSE 1)
                                  ELSE @,
                    !.collided = IF m \in hit THEN 1 ELSE @]]
        cancelled(m, from) == FALSE
        nd1 == [m \in Nodes |->
                 [node[m] EXCEPT
                    !.receive_rts = @ /\ ~cancelled(m, node[m].receive_rts_from),
                    !.receive_data = @ /\ ~cancelled(m, node[m].receive_data_from)]]
        \* a packet received by the gateway is received by every listening node
        hears(m) == /\ cfg.CA /\ col = 0 /\ m # n /\ listening(nd1[m])
                    /\ ~nd1[m].receive_rts /\ ~nd1[m].receive_data
        nd2 == [m \in Nodes |->
                 IF hears(m) /\ p.ptype = rtsPacketType
                 THEN [nd1[m] EXCEPT !.receive_rts = TRUE, !.receive_rts_from = n,
                                     !.receive_rts_time = now, !.nav = p.data_len]
                 ELSE IF hears(m) /\ p.ptype = dataPacketType
                 THEN [nd1[m] EXCEPT !.receive_data = TRUE, !.receive_data_from = n,
                                     !.receive_data_time = now,
                                     !.nav = cfg.max_payload_size]
                 ELSE nd1[m]]
    IN  [packet |-> pk, node |-> nd2, col |-> col]

\* checkcollision(node[n].packet): the packets and nodes as it leaves them,
\* and its return value col
checkcollision(n) ==
    LET p == packet[n]
        inflight == {packetsAtBS[i] : i \in 1 .. Len(packetsAtBS)}
        processing == Cardinality({o \in inflight : packet[o].processed = 1})
        hit == UNION {Casualties(p, packet[o]) : o \in inflight \ {n}}
        col == IF n \in hit THEN 1 ELSE 0
        pk == [m \in Nodes |->
                 [packet[m] EXCEPT
                    !.processed = IF m = n
                                  THEN (IF processing > maxBSReceives THEN 0 ELSE 1)
                                  ELSE @,
                    !.collided = IF m \in hit THEN 1 ELSE @]]
        \* hints whose source is now marked collided are cancelled
        cancelled(m, from) ==
            cfg.CA /\ \E o \in inflight : from = o /\ pk[o].collided = 1
        nd1 == [m \in Nodes |->
                 [node[m] EXCEPT
                    !.receive_rts = @ /\ ~cancelled(m, node[m].receive_rts_from),
                    !.receive_data = @ /\ ~cancelled(m, node[m].receive_data_from)]]
        \* a packet received by the gateway is received by every listening node
        hears(m) == /\ cfg.CA /\ col = 0 /\ m # n /\ listening(nd1[m])
                    /\ ~nd1[m].receive_rts /\ ~nd1[m].receive_data
        nd2 == [m \in Nodes |->
                 IF hears(m) /\ p.ptype = rtsPacketType
                 THEN [nd1[m] EXCEPT !.receive_rts = TRUE, !.receive_rts_from = n,
                                     !.receive_rts_time = now, !.nav = p.data_len]
                 ELSE IF hears(m) /\ p.ptype = dataPacketType
                 THEN [nd1[m] EXCEPT !.receive_data = TRUE, !.receive_data_from = n,
                                     !.receive_data_time = now,
                                     !.nav = cfg.max_payload_size]
                 ELSE nd1[m]]
    IN  [packet |-> pk, node |-> nd2, col |-> col]

\* variant: the DATA branch keeps the current length
setPacketTypeKeepLength(p, ptype) ==
    IF ptype = rtsPacketType
    THEN [p EXCEPT !.ptype = ptype, !.pl = rtsLength,
                   !.rectime = airtime(p.sf, p.cr, rtsLength, p.bw)]
    ELSE [p EXCEPT !.ptype = ptype,
                   !.rectime = airtime(p.sf, p.cr, p.pl, p.bw)]

\* myPacket.setPacketType
setPacketType(p, ptype) ==
    IF ptype = rtsPacketType
    THEN [p EXCEPT !.ptype = ptype, !.pl = rtsLength,
                   !.rectime = airtime(p.sf, p.cr, rtsLength, p.bw)]
    ELSE [p EXCEPT !.ptype = ptype, !.pl = p.data_len,
                   !.rectime = airtime(p.sf, p.cr, p.data_len, p.bw)]

\* ------------------------------------------------------------------------
\* Pieces shared by the transmit() branches
\* ------------------------------------------------------------------------
\* variant: CCA_prob taken as the probability of a miss
CcaFindsInverted(r) == r > cfg.CCA_prob

\* random.randint(1,100) <= CCA_prob and CCA_prob != 0
CcaFinds(r) == r <= cfg.CCA_prob /\ cfg.CCA_prob # 0

\* variant: the exponent grows without limit
NextBEUnbounded(be) ==
    IF cfg.Wbusy_exp_backoff THEN be + 1 ELSE be

\* node.Wbusy_BE after a busy detection
NextBE(be) ==
    IF cfg.Wbusy_exp_backoff /\ be < cfg.Wbusy_maxBE THEN be + 1 ELSE be

\* random.randint(Wbusy_min, 2**node.Wbusy_BE)
BusyBackoffs(n) == cfg.Wbusy_min .. Pow2(node[n].Wbusy_BE)

inFlight(n) == \E i \in 1 .. Len(packetsAtBS) : packetsAtBS[i] = n

\* variant: the entry is left in the list at the end of the transmission
RemoveNothing(q, n) == q

\* packetsAtBS.remove(node)
Remove(q, n) == SelectSeq(q, LAMBDA m : m # n)

\* variant: the arrival does not stamp addTime
ArrivalNoStamp(n, keepReturn) ==
    LET cc == checkcollision(n) IN
    IF inFlight(n)
    THEN [packet |-> packet, node |-> node, list |-> packetsAtBS]
    ELSE IF packet[n].rssi < sensi(packet[n].sf, packet[n].bw)
    THEN [packet |-> [packet EXCEPT ![n].lost = TRUE], node |-> node,
          list |-> packetsAtBS]
    ELSE [packet |-> [cc.packet EXCEPT ![n].lost = FALSE,
                                       ![n].collided =
                                           IF keepReturn THEN cc.col ELSE @],
          node |-> cc.node,
          list |-> Append(packetsAtBS, n)]

\* the arrival of node n's packet at the gateway: the sensitivity test,
\* checkcollision and the insertion in packetsAtBS; nd is the node state
\* with the sender's own counters already updated
Arrival(n, keepReturn) ==
    LET cc == checkcollision(n) IN
    IF inFlight(n)
    THEN [packet |-> packet, node |-> node, list |-> packetsAtBS]
    ELSE IF packet[n].rssi < sensi(packet[n].sf, packet[n].bw)
    THEN [packet |-> [packet EXCEPT ![n].lost = TRUE], node |-> node,
          list |-> packetsAtBS]
    ELSE [packet |-> [cc.packet EXCEPT ![n].lost = FALSE,
                                       ![n].addTime = now,
                                       ![n].collided =
                                           IF keepReturn THEN cc.col ELSE @],
          node |-> cc.node,
          list |-> Append(packetsAtBS, n)]

\* variant: the task returns as soon as the target is reached
LoopEndAtTarget(n, processed) ==
    IF processed >= cfg.targetSentPacket * cfg.nrNodes
    THEN /\ pc' = [pc EXCEPT ![n] = "returned"]
         /\ cur' = NoNode
         /\ UNCHANGED queue
    ELSE Goto(n, "loop")

\* the end of the loop body: the task returns once the target is passed
LoopEnd(n, processed) ==
    IF processed > cfg.targetSentPacket * cfg.nrNodes
    THEN /\ pc' = [pc EXCEPT ![n] = "returned"]
         /\ cur' = NoNode
         /\ UNCHANGED queue
    ELSE Goto(n, "loop")

\* the statistics of one CCA: n_cca and the busy counters
CcaStats(nd, countRts) ==
    [nd EXCEPT !.n_cca = @ + 1,
               !.n_busy_rts = IF countRts /\ channel_busy_rts THEN @ + 1 ELSE @,
               !.n_busy_data = IF (~countRts \/ ~channel_busy_rts) /\ channel_busy_data
                               THEN @ + 1 ELSE @]

\* ------------------------------------------------------------------------
\* transmit(), without collision avoidance (CA = False)
\* ------------------------------------------------------------------------
NoCaSchedule(n) ==
    /\ cur = n /\ ~cfg.CA /\ pc[n] = "loop"
    /\ \E w \in TransmitWaits(n) :
          /\ node' = [node EXCEPT ![n].cycle = @ + 1]
          /\ Timeout(n, w, "nca_want")
    /\ UNCHANGED <<cfg, now, packet, packetsAtBS, channel, gwCounters, rtsCounters>>

NoCaWant(n) ==
    /\ cur = n /\ pc[n] = "nca_want"
    /\ node' = [node EXCEPT ![n].want_transmit_time = now]
    /\ Goto(n, "nca_cca")
    /\ UNCHANGED <<cfg, now, packet, packetsAtBS, channel, gwCounters, rtsCounters>>

\* variant: the carrier sense looks at the RTS flag instead of the DATA flag
NoCaFindsBusyRtsFlag(r) == cfg.check_busy /\ channel_busy_rts /\ CcaFinds(r)

\* variant: the carrier sense of the loop is made whatever check_busy is
NoCaFindsBusyAlways(r) == channel_busy_data /\ CcaFinds(r)

\* the CCA of one pass of the retry loop finds the channel busy
NoCaFindsBusy(r) == cfg.check_busy /\ channel_busy_data /\ CcaFinds(r)

NoCaCcaBusy(n) ==
    /\ cur = n /\ pc[n] = "nca_cca"
    /\ node[n].n_retry # 0
    /\ \E r \in CcaDraws, b \in BusyBackoffs(n) :
          /\ NoCaFindsBusy(r)
          /\ node' = [node EXCEPT
                ![n] = [CcaStats(@, FALSE) EXCEPT
                          !.backoff = b,
                          !.Wbusy_BE = NextBE(@),
                          !.n_retry = @ - 1]]
          /\ Yield(n, (IF cfg.Wbusy_add_max_toa
                       THEN airtime(packet[n].sf, packet[n].cr,
                                    cfg.max_payload_size, packet[n].bw)
                       ELSE 0) + b * packet[n].Tpream, "nca_cca")
    /\ UNCHANGED <<cfg, now, packet, packetsAtBS, channel, gwCounters, rtsCounters>>

NoCaAbort(n) ==
    /\ cur = n /\ pc[n] = "nca_cca"
    /\ node[n].n_retry = 0
    /\ node' = [node EXCEPT ![n].n_aborted = @ + 1,
                            ![n].n_retry = cfg.n_retry,
                            ![n].Wbusy_BE = cfg.Wbusy_BE]
    /\ LoopEnd(n, nrProcessed)
    /\ UNCHANGED <<cfg, now, packet, packetsAtBS, channel, gwCounters, rtsCounters>>

NoCaTransmit(n) ==
    /\ cur = n /\ pc[n] = "nca_cca"
    /\ node[n].n_retry # 0
    /\ \E r \in CcaDraws :
          /\ ~NoCaFindsBusy(r)
          /\ LET a == Arrival(n, TRUE) IN
               /\ node' = [a.node EXCEPT
                     ![n] = [(IF cfg.check_busy THEN CcaStats(@, FALSE) ELSE @) EXCEPT
                               !.n_data_sent = @ + 1,
                               !.latency = @ + (now - node[n].want_transmit_time)]]
               /\ packet' = a.packet
               /\ packetsAtBS' = a.list
    /\ channel_busy_data' = TRUE
    /\ Yield(n, packet[n].rectime, "nca_data_end")
    /\ UNCHANGED <<cfg, now, channel_busy_rts, gwCounters, rtsCounters>>

\* variant: every packet that is not lost counts as received
DataCountersLoose(p) ==
    /\ nrLost' = IF p.lost THEN nrLost + 1 ELSE nrLost
    /\ nrCollisions' = IF p.collided = 1 THEN nrCollisions + 1 ELSE nrCollisions
    /\ nrReceived' = IF ~p.lost THEN nrReceived + 1 ELSE nrReceived
    /\ nrProcessed' = IF p.processed = 1 THEN nrProcessed + 1 ELSE nrProcessed

\* variant: a finished DATA packet counts as received only if it collided
DataCountersSwapped(p) ==
    /\ nrLost' = IF p.lost THEN nrLost + 1 ELSE nrLost
    /\ nrCollisions' = IF p.collided = 1 THEN nrCollisions + 1 ELSE nrCollisions
    /\ nrReceived' = IF p.collided = 1 /\ ~p.lost THEN nrReceived + 1 ELSE nrReceived
    /\ nrProcessed' = IF p.processed = 1 THEN nrProcessed + 1 ELSE nrProcessed

\* the counters a finished DATA packet updates
DataCounters(p) ==
    /\ nrLost' = IF p.lost THEN nrLost + 1 ELSE nrLost
    /\ nrCollisions' = IF p.collided = 1 THEN nrCollisions + 1 ELSE nrCollisions
    /\ nrReceived' = IF p.collided = 0 /\ ~p.lost THEN nrReceived + 1 ELSE nrReceived
    /\ nrProcessed' = IF p.processed = 1 THEN nrProcessed + 1 ELSE nrProcessed

\* the packet reset that ends a transmission
ResetPacket(p) == [p EXCEPT !.collided = 0, !.processed = 0, !.lost = FALSE]

NoCaDataEnd(n) ==
    /\ cur = n /\ pc[n] = "nca_data_end"
    /\ channel_busy_data' = FALSE
    /\ DataCounters(packet[n])
    /\ packetsAtBS' = Remove(packetsAtBS, n)
    /\ packet' = [packet EXCEPT ![n] = ResetPacket(@)]
    /\ node' = [node EXCEPT ![n].n_retry = cfg.n_retry,
                            ![n].Wbusy_BE = cfg.Wbusy_BE]
    /\ LoopEnd(n, nrProcessed')
    /\ UNCHANGED <<cfg, now, channel_busy_rts, rtsCounters>>

NoCaNext ==
    \E n \in Nodes :
        \/ NoCaSchedule(n) \/ NoCaWant(n) \/ NoCaCcaBusy(n)
        \/ NoCaAbort(n) \/ NoCaTransmit(n) \/ NoCaDataEnd(n)

\* ------------------------------------------------------------------------
\* transmit(), with collision avoidance (CA = True)
\* ------------------------------------------------------------------------
\* The body of the loop is a sequence of if-blocks tested in this order; a
\* task that resumes after a yield goes on with the blocks that follow.
\* pc names the block whose test comes next.
Blocks ==
    <<"schedule_tx", "want_transmit", "start_CA", "phase1_listen",
      "phase1_listen_rts", "phase2_backoff", "phase2_rts", "phase2_listen",
      "phase2_listen_rts", "phase3_backoff", "phase3_transmit", "start_nav">>

IsPos(l) == l \in {"loop", "loop_end"} \/ \E i \in 1 .. Len(Blocks) : Blocks[i] = l

PosOf(l) ==
    IF l = "loop" THEN 1
    ELSE IF l = "loop_end" THEN Len(Blocks) + 1
    ELSE CHOOSE i \in 1 .. Len(Blocks) : Blocks[i] = l

\* the test of the i-th block
BlockCond(n, i) ==
    LET s == node[n].ca_state
        t == packet[n].ptype
        rts == node[n].receive_rts
    IN  CASE i = 1 -> s = schedule_tx
          [] i = 2 -> s = want_transmit /\ t = dataPacketType
          [] i = 3 -> s = start_CA /\ t = rtsPacketType
          [] i = 4 -> s = start_phase1_listen /\ ~rts
          [] i = 5 -> s = start_phase1_listen /\ rts
          [] i = 6 -> s = start_phase2_backoff
          [] i = 7 -> s = start_phase2_rts
          [] i = 8 -> s = start_phase2_listen /\ ~rts
          [] i = 9 -> s = start_phase2_listen /\ rts
          [] i = 10 -> s = start_phase3_backoff
          [] i = 11 -> s = start_phase3_transmit /\ t = dataPacketType
          [] OTHER -> s = start_nav

\* node n's task is running and the next block it enters is block b
At(n, b) ==
    /\ cur = n /\ cfg.CA /\ IsPos(pc[n])
    /\ PosOf(pc[n]) <= PosOf(b)
    /\ \A j \in PosOf(pc[n]) .. (PosOf(b) - 1) : ~BlockCond(n, j)
    /\ BlockCond(n, PosOf(b))

\* the random DIFS added to a NAV period
NavDraws == IF cfg.Wnav # 0 THEN 0 .. cfg.Wnav ELSE {0}

ScheduleTx(n) ==
    /\ At(n, "schedule_tx")
    /\ \E w \in TransmitWaits(n) :
          /\ node' = [node EXCEPT ![n].cycle = @ + 1,
                                  ![n].ca_state = want_transmit]
          /\ Timeout(n, w, "want_transmit")
    /\ UNCHANGED <<cfg, now, packet, packetsAtBS, channel, gwCounters, rtsCounters>>

\* variant: the abort hands the node back to schedule_tx
WantTransmitAbortReschedule(n) ==
    /\ At(n, "want_transmit")
    /\ node[n].n_retry = 0
    /\ node' = [node EXCEPT ![n].n_aborted = @ + 1,
                            ![n].n_retry = cfg.n_retry,
                            ![n].Wbusy_BE = cfg.Wbusy_BE,
                            ![n].cca = FALSE,
                            ![n].nav = 0,
                            ![n].ca_state = schedule_tx]
    /\ Goto(n, "start_CA")
    /\ UNCHANGED <<cfg, now, packet, packetsAtBS, channel, gwCounters, rtsCounters>>

\* variant: the abort waits for a retry count below zero
WantTransmitAbortBelowZero(n) ==
    /\ At(n, "want_transmit")
    /\ node[n].n_retry < 0
    /\ node' = [node EXCEPT ![n].n_aborted = @ + 1,
                            ![n].n_retry = cfg.n_retry,
                            ![n].Wbusy_BE = cfg.Wbusy_BE,
                            ![n].cca = FALSE,
                            ![n].nav = 0]
    /\ Goto(n, "start_CA")
    /\ UNCHANGED <<cfg, now, packet, packetsAtBS, channel, gwCounters, rtsCounters>>

\* want_transmit with n_retry exhausted: the packet is aborted
WantTransmitAbort(n) ==
    /\ At(n, "want_transmit")
    /\ node[n].n_retry = 0
    /\ node' = [node EXCEPT ![n].n_aborted = @ + 1,
                            ![n].n_retry = cfg.n_retry,
                            ![n].Wbusy_BE = cfg.Wbusy_BE,
                            ![n].cca = FALSE,
                            ![n].nav = 0]
    /\ Goto(n, "start_CA")
    /\ UNCHANGED <<cfg, now, packet, packetsAtBS, channel, gwCounters, rtsCounters>>

\* variant: the retry after NAV stamps want_transmit_time again
WantTransmitEnterRestamp(nd) ==
    IF nd.cca THEN [nd EXCEPT !.cca = FALSE]
    ELSE IF nd.nav # 0
    THEN [nd EXCEPT !.nav = 0, !.want_transmit_time = now,
                    !.W2 = IF cfg.W2afterNAV # cfg.W2 THEN cfg.W2afterNAV ELSE cfg.W2]
    ELSE [nd EXCEPT !.want_transmit_time = now]

\* the node as the first part of want_transmit leaves it: a retry after
\* CCA, a retry after NAV, or an initial attempt
WantTransmitEnter(nd) ==
    IF nd.cca THEN [nd EXCEPT !.cca = FALSE]
    ELSE IF nd.nav # 0
    THEN [nd EXCEPT !.nav = 0,
                    !.W2 = IF cfg.W2afterNAV # cfg.W2 THEN cfg.W2afterNAV ELSE cfg.W2]
    ELSE [nd EXCEPT !.want_transmit_time = now]

\* variant: the CCA reports busy whatever the channel flags are
CaFindsBusyAnyway(enabled, r) == enabled /\ CcaFinds(r)

\* the CCA before a CA transmission finds the channel busy
CaFindsBusy(enabled, r) ==
    enabled /\ (channel_busy_rts \/ channel_busy_data) /\ CcaFinds(r)

\* variant: the CCA of want_transmit is made whatever n_retry is
WantTransmitBusyAnyRetry(n) ==
    /\ At(n, "want_transmit")
    /\ \E r \in CcaDraws, b \in BusyBackoffs(n) :
          /\ CaFindsBusy(cfg.check_busy, r)
          /\ node' = [node EXCEPT
                ![n] = [CcaStats(WantTransmitEnter(@), TRUE) EXCEPT
                          !.backoff = b,
                          !.cca = TRUE,
                          !.Wbusy_BE = NextBE(@),
                          !.n_retry = @ - 1]]
          /\ Yield(n, b * packet[n].Tpream, "start_CA")
    /\ UNCHANGED <<cfg, now, packet, packetsAtBS, channel, gwCounters, rtsCounters>>

\* want_transmit with retries left: the CCA finds the channel busy
WantTransmitBusy(n) ==
    /\ At(n, "want_transmit")
    /\ node[n].n_retry # 0
    /\ \E r \in CcaDraws, b \in BusyBackoffs(n) :
          /\ CaFindsBusy(cfg.check_busy, r)
          /\ node' = [node EXCEPT
                ![n] = [CcaStats(WantTransmitEnter(@), TRUE) EXCEPT
                          !.backoff = b,
                          !.cca = TRUE,
                          !.Wbusy_BE = NextBE(@),
                          !.n_retry = @ - 1]]
          /\ Yield(n, b * packet[n].Tpream, "start_CA")
    /\ UNCHANGED <<cfg, now, packet, packetsAtBS, channel, gwCounters, rtsCounters>>

WantTransmitFree(n) ==
    /\ At(n, "want_transmit")
    /\ node[n].n_retry # 0
    /\ \E r \in CcaDraws, p \in MyPDraws :
          /\ ~CaFindsBusy(cfg.check_busy, r)
          /\ node' = [node EXCEPT
                ![n] = [(IF cfg.check_busy
                         THEN CcaStats(WantTransmitEnter(@), TRUE)
                         ELSE WantTransmitEnter(@)) EXCEPT
                          !.my_P = p,
                          !.ca_state = start_CA]]
    /\ packet' = [packet EXCEPT ![n] = setPacketType(@, rtsPacketType)]
    /\ Goto(n, "start_CA")
    /\ UNCHANGED <<cfg, now, packetsAtBS, channel, gwCounters, rtsCounters>>

\* the listening period WL*DIFS + TOA(RTS)
ListenTime(n) == cfg.WL * packet[n].Tpream + packet[n].rectime

StartCA(n) ==
    /\ At(n, "start_CA")
    /\ IF node[n].my_P > cfg.P
       THEN /\ node' = [node EXCEPT ![n].ca_state = start_phase1_listen]
            /\ Yield(n, ListenTime(n), "phase1_listen")
       ELSE \E b \in 0 .. cfg.W2 :
               /\ node' = [node EXCEPT ![n].ca_state = start_phase2_backoff,
                                       ![n].backoff = b]
               /\ Yield(n, b * packet[n].Tpream, "phase1_listen")
    /\ UNCHANGED <<cfg, now, packet, packetsAtBS, channel, gwCounters, rtsCounters>>

\* variant: the time already spent since the DATA header is not deducted
ListenEndFullNav(n, nextState, W, after) ==
    IF node[n].receive_data
    THEN \E e \in NavDraws :
            LET nav_period == airtime(packet[n].sf, packet[n].cr, node[n].nav,
                                      packet[n].bw)
            IN  /\ node' = [node EXCEPT ![n].receive_data = FALSE,
                                        ![n].ca_state = start_nav]
                /\ Yield(n, nav_period + e * packet[n].Tpream, after)
    ELSE \E b \in 0 .. W :
            /\ node' = [node EXCEPT ![n].backoff = b,
                                    ![n].ca_state = nextState]
            /\ Yield(n, b * packet[n].Tpream, after)

\* the end of a listening period in which no RTS was received: a NAV for a
\* received DATA header, or else the backoff of the next phase
ListenEnd(n, nextState, W, after) ==
    IF node[n].receive_data
    THEN \E e \in NavDraws :
            LET nav_period == airtime(packet[n].sf, packet[n].cr, node[n].nav,
                                      packet[n].bw)
                t0 == node[n].receive_data_time
            IN  /\ node' = [node EXCEPT ![n].receive_data = FALSE,
                                        ![n].ca_state = start_nav]
                /\ IF t0 + nav_period + e * packet[n].Tpream <= now
                   THEN Goto(n, after)
                   ELSE Yield(n, nav_period + e * packet[n].Tpream - (now - t0),
                              after)
    ELSE \E b \in 0 .. W :
            /\ node' = [node EXCEPT ![n].backoff = b,
                                    ![n].ca_state = nextState]
            /\ Yield(n, b * packet[n].Tpream, after)

\* variant: the time already spent since the RTS is not deducted
ListenEndRtsFull(n, after) ==
    \E e \in NavDraws :
        LET nav_period == cfg.WL * packet[n].Tpream + packet[n].rectime
                            + cfg.W3 * packet[n].Tpream
                            + airtime(packet[n].sf, packet[n].cr, node[n].nav,
                                      packet[n].bw)
        IN  /\ node' = [node EXCEPT ![n].receive_rts = FALSE,
                                    ![n].ca_state = start_nav]
            /\ Yield(n, nav_period + e * packet[n].Tpream, after)

\* variant: the RTS hint survives the end of the listening period
ListenEndRtsKeepHint(n, after) ==
    \E e \in NavDraws :
        LET nav_period == cfg.WL * packet[n].Tpream + packet[n].rectime
                            + cfg.W3 * packet[n].Tpream
                            + airtime(packet[n].sf, packet[n].cr, node[n].nav,
                                      packet[n].bw)
        IN  /\ node' = [node EXCEPT ![n].ca_state = start_nav]
            /\ Yield(n, nav_period + e * packet[n].Tpream
                          - (now - node[n].receive_rts_time), after)

\* the end of a listening period in which an RTS was received: NAV
ListenEndRts(n, after) ==
    \E e \in NavDraws :
        LET nav_period == cfg.WL * packet[n].Tpream + packet[n].rectime
                            + cfg.W3 * packet[n].Tpream
                            + airtime(packet[n].sf, packet[n].cr, node[n].nav,
                                      packet[n].bw)
        IN  /\ node' = [node EXCEPT ![n].receive_rts = FALSE,
                                    ![n].ca_state = start_nav]
            /\ Yield(n, nav_period + e * packet[n].Tpream
                          - (now - node[n].receive_rts_time), after)

Phase1Listen(n) ==
    /\ At(n, "phase1_listen")
    /\ ListenEnd(n, start_phase2_backoff, cfg.W2, "phase1_listen_rts")
    /\ UNCHANGED <<cfg, now, packet, packetsAtBS, channel, gwCounters, rtsCounters>>

Phase1ListenRts(n) ==
    /\ At(n, "phase1_listen_rts")
    /\ ListenEndRts(n, "phase2_backoff")
    /\ UNCHANGED <<cfg, now, packet, packetsAtBS, channel, gwCounters, rtsCounters>>

\* start_phase2_backoff -> start_phase2_rts: the part before the CCA loop
Phase2Backoff(n) ==
    /\ At(n, "phase2_backoff")
    /\ node' = [node EXCEPT
          ![n].ca_state = start_phase2_rts,
          ![n].Wbusy_BE = cfg.Wbusy_BE,
          ![n].n_retry_rts = IF cfg.n_retry_rts > 0 THEN cfg.n_retry_rts ELSE @,
          ![n].cca = FALSE]
    /\ Goto(n, "rts_cca")
    /\ UNCHANGED <<cfg, now, packet, packetsAtBS, channel, gwCounters, rtsCounters>>

\* variant: the RTS retry counter is decremented whatever the limit
RtsCcaBusyAlways(n) ==
    /\ cur = n /\ pc[n] = "rts_cca"
    /\ node[n].n_retry_rts # 0
    /\ \E r \in CcaDraws, b \in BusyBackoffs(n) :
          /\ CaFindsBusy(cfg.check_busy_rts, r)
          /\ node' = [node EXCEPT
                ![n] = [CcaStats(@, TRUE) EXCEPT
                          !.backoff = b,
                          !.Wbusy_BE = NextBE(@),
                          !.n_retry_rts = @ - 1]]
          /\ Yield(n, b * packet[n].Tpream, "rts_cca")
    /\ UNCHANGED <<cfg, now, packet, packetsAtBS, channel, gwCounters, rtsCounters>>

\* one pass of the RTS retry loop that finds the channel busy
RtsCcaBusy(n) ==
    /\ cur = n /\ pc[n] = "rts_cca"
    /\ node[n].n_retry_rts # 0
    /\ \E r \in CcaDraws, b \in BusyBackoffs(n) :
          /\ CaFindsBusy(cfg.check_busy_rts, r)
          /\ node' = [node EXCEPT
                ![n] = [CcaStats(@, TRUE) EXCEPT
                          !.backoff = b,
                          !.Wbusy_BE = NextBE(@),
                          !.n_retry_rts = IF cfg.n_retry_rts > 0 THEN @ - 1 ELSE @]]
          /\ Yield(n, b * packet[n].Tpream, "rts_cca")
    /\ UNCHANGED <<cfg, now, packet, packetsAtBS, channel, gwCounters, rtsCounters>>

\* variant: the busy flag is not set with the insertion of the RTS
RtsTransmitFlagUnset(n) ==
    /\ cur = n /\ pc[n] = "rts_cca"
    /\ \E r \in CcaDraws :
          /\ node[n].n_retry_rts = 0 \/ ~CaFindsBusy(cfg.check_busy_rts, r)
          /\ LET a == Arrival(n, FALSE)
                 sent(nd) == [(IF node[n].n_retry_rts # 0 /\ cfg.check_busy_rts
                               THEN CcaStats(nd, TRUE) ELSE nd) EXCEPT
                                !.n_rts_sent = @ + 1]
             IN  IF ListTakes(retry_rts_bin_len,
                              cfg.n_retry_rts - node[n].n_retry_rts)
                 THEN /\ node' = [a.node EXCEPT ![n] = sent(@)]
                      /\ packet' = a.packet
                      /\ packetsAtBS' = a.list
                      /\ UNCHANGED channel_busy_rts
                      /\ Yield(n, packet[n].rectime, "rts_end")
                 ELSE /\ node' = [node EXCEPT ![n] = sent(@)]
                      /\ Raise(n, "index_error")
                      /\ UNCHANGED <<packet, packetsAtBS, channel_busy_rts>>
    /\ UNCHANGED <<cfg, now, channel_busy_data, gwCounters, rtsCounters>>

\* the loop is left (channel found free, or no RTS retry left), the retry
\* histogram is updated and the RTS is put on the air
RtsTransmit(n) ==
    /\ cur = n /\ pc[n] = "rts_cca"
    /\ \E r \in CcaDraws :
          /\ node[n].n_retry_rts = 0 \/ ~CaFindsBusy(cfg.check_busy_rts, r)
          /\ LET a == Arrival(n, FALSE)
                 sent(nd) == [(IF node[n].n_retry_rts # 0 /\ cfg.check_busy_rts
                               THEN CcaStats(nd, TRUE) ELSE nd) EXCEPT
                                !.n_rts_sent = @ + 1]
             IN  IF ListTakes(retry_rts_bin_len,
                              cfg.n_retry_rts - node[n].n_retry_rts)
                 THEN /\ node' = [a.node EXCEPT ![n] = sent(@)]
                      /\ packet' = a.packet
                      /\ packetsAtBS' = a.list
                      /\ channel_busy_rts' = TRUE
                      /\ Yield(n, packet[n].rectime, "rts_end")
                 ELSE /\ node' = [node EXCEPT ![n] = sent(@)]
                      /\ Raise(n, "index_error")
                      /\ UNCHANGED <<packet, packetsAtBS, channel_busy_rts>>
    /\ UNCHANGED <<cfg, now, channel_busy_data, gwCounters, rtsCounters>>

RtsEnd(n) ==
    /\ cur = n /\ pc[n] = "rts_end"
    /\ channel_busy_rts' = FALSE
    /\ nrRTSLost' = IF packet[n].lost THEN nrRTSLost + 1 ELSE nrRTSLost
    /\ nrRTSCollisions' = IF packet[n].collided = 1 THEN nrRTSCollisions + 1
                          ELSE nrRTSCollisions
    /\ nrRTSReceived' = IF packet[n].collided = 0 /\ ~packet[n].lost
                        THEN nrRTSReceived + 1 ELSE nrRTSReceived
    /\ nrRTSProcessed' = IF packet[n].processed = 1 THEN nrRTSProcessed + 1
                         ELSE nrRTSProcessed
    /\ packetsAtBS' = Remove(packetsAtBS, n)
    /\ packet' = [packet EXCEPT ![n] = ResetPacket(@)]
    /\ Goto(n, "phase2_rts")
    /\ UNCHANGED <<cfg, now, node, channel_busy_data, gwCounters>>

Phase2Rts(n) ==
    /\ At(n, "phase2_rts")
    /\ IF cfg.CA1
       THEN \E b \in 0 .. cfg.W3 :
               /\ node' = [node EXCEPT ![n].ca_state = start_phase3_backoff,
                                       ![n].backoff = b]
               /\ Yield(n, b * packet[n].Tpream, "phase2_listen")
       ELSE /\ node' = [node EXCEPT ![n].ca_state = start_phase2_listen]
            /\ Yield(n, ListenTime(n), "phase2_listen")
    /\ UNCHANGED <<cfg, now, packet, packetsAtBS, channel, gwCounters, rtsCounters>>

Phase2Listen(n) ==
    /\ At(n, "phase2_listen")
    /\ ListenEnd(n, start_phase3_backoff, cfg.W3, "phase2_listen_rts")
    /\ UNCHANGED <<cfg, now, packet, packetsAtBS, channel, gwCounters, rtsCounters>>

Phase2ListenRts(n) ==
    /\ At(n, "phase2_listen_rts")
    /\ ListenEndRts(n, "phase3_backoff")
    /\ UNCHANGED <<cfg, now, packet, packetsAtBS, channel, gwCounters, rtsCounters>>

Phase3Backoff(n) ==
    /\ At(n, "phase3_backoff")
    /\ node' = [node EXCEPT ![n].ca_state = start_phase3_transmit]
    /\ packet' = [packet EXCEPT ![n] = setPacketType(@, dataPacketType)]
    /\ Goto(n, "phase3_transmit")
    /\ UNCHANGED <<cfg, now, packetsAtBS, channel, gwCounters, rtsCounters>>

\* variant: a busy channel before DATA does not use up a retry
Phase3BusyFree(n) ==
    /\ At(n, "phase3_transmit")
    /\ \E r \in CcaDraws :
          /\ CaFindsBusy(cfg.check_busy, r)
          /\ node' = [node EXCEPT
                ![n] = [CcaStats(@, TRUE) EXCEPT
                          !.cca = TRUE,
                          !.ca_state = want_transmit]]
    /\ Goto(n, "start_nav")
    /\ UNCHANGED <<cfg, now, packet, packetsAtBS, channel, gwCounters, rtsCounters>>

\* CCA before DATA finds the channel busy: back to want_transmit
Phase3Busy(n) ==
    /\ At(n, "phase3_transmit")
    /\ \E r \in CcaDraws :
          /\ CaFindsBusy(cfg.check_busy, r)
          /\ node' = [node EXCEPT
                ![n] = [CcaStats(@, TRUE) EXCEPT
                          !.cca = TRUE,
                          !.n_retry = @ - 1,
                          !.ca_state = want_transmit]]
    /\ Goto(n, "start_nav")
    /\ UNCHANGED <<cfg, now, packet, packetsAtBS, channel, gwCounters, rtsCounters>>

\* variant: the DATA is sent whatever the CCA reports
Phase3TransmitAnyway(n) ==
    /\ At(n, "phase3_transmit")
    /\ LET a == Arrival(n, FALSE) IN
         /\ node' = [a.node EXCEPT
               ![n] = [(IF cfg.check_busy THEN CcaStats(@, TRUE) ELSE @) EXCEPT
                         !.n_data_sent = @ + 1,
                         !.latency = @ + (now - node[n].want_transmit_time)]]
         /\ packet' = a.packet
         /\ packetsAtBS' = a.list
    /\ channel_busy_data' = TRUE
    /\ Yield(n, packet[n].rectime, "data_end")
    /\ UNCHANGED <<cfg, now, channel_busy_rts, gwCounters, rtsCounters>>

Phase3Transmit(n) ==
    /\ At(n, "phase3_transmit")
    /\ \E r \in CcaDraws :
          /\ ~CaFindsBusy(cfg.check_busy, r)
          /\ LET a == Arrival(n, FALSE) IN
               /\ node' = [a.node EXCEPT
                     ![n] = [(IF cfg.check_busy THEN CcaStats(@, TRUE) ELSE @) EXCEPT
                               !.n_data_sent = @ + 1,
                               !.latency = @ + (now - node[n].want_transmit_time)]]
               /\ packet' = a.packet
               /\ packetsAtBS' = a.list
    /\ channel_busy_data' = TRUE
    /\ Yield(n, packet[n].rectime, "data_end")
    /\ UNCHANGED <<cfg, now, channel_busy_rts, gwCounters, rtsCounters>>

DataEnd(n) ==
    /\ cur = n /\ pc[n] = "data_end"
    /\ channel_busy_data' = FALSE
    /\ DataCounters(packet[n])
    /\ packetsAtBS' = Remove(packetsAtBS, n)
    /\ packet' = [packet EXCEPT ![n] = ResetPacket(@)]
    /\ node' = [node EXCEPT ![n].n_retry = cfg.n_retry,
                            ![n].cca = FALSE,
                            ![n].nav = 0,
                            ![n].ca_state = schedule_tx]
    /\ Goto(n, "start_nav")
    /\ UNCHANGED <<cfg, now, channel_busy_rts, rtsCounters>>

\* variant: the NAV period ends in schedule_tx
StartNavToSchedule(n) ==
    /\ At(n, "start_nav")
    /\ node' = [node EXCEPT ![n].ca_state = schedule_tx,
                            ![n].n_retry = @ - 1]
    /\ packet' = [packet EXCEPT ![n] = setPacketType(@, dataPacketType)]
    /\ Goto(n, "loop_end")
    /\ UNCHANGED <<cfg, now, packetsAtBS, channel, gwCounters, rtsCounters>>

\* start_nav -> want_transmit
StartNav(n) ==
    /\ At(n, "start_nav")
    /\ node' = [node EXCEPT ![n].ca_state = want_transmit,
                            ![n].n_retry = @ - 1]
    /\ packet' = [packet EXCEPT ![n] = setPacketType(@, dataPacketType)]
    /\ Goto(n, "loop_end")
    /\ UNCHANGED <<cfg, now, packetsAtBS, channel, gwCounters, rtsCounters>>

\* no block from here to the end of the body applies
CaLoopEnd(n) ==
    /\ cur = n /\ cfg.CA /\ IsPos(pc[n]) /\ pc[n] # "loop"
    /\ \A j \in PosOf(pc[n]) .. Len(Blocks) : ~BlockCond(n, j)
    /\ LoopEnd(n, nrProcessed)
    /\ UNCHANGED <<cfg, now, node, packet, packetsAtBS, channel, gwCounters,
                   rtsCounters>>

CaNext ==
    \E n \in Nodes :
        \/ ScheduleTx(n) \/ WantTransmitAbort(n) \/ WantTransmitBusy(n)
        \/ WantTransmitFree(n) \/ StartCA(n)
        \/ Phase1Listen(n) \/ Phase1ListenRts(n)
        \/ Phase2Backoff(n) \/ RtsCcaBusy(n) \/ RtsTransmit(n) \/ RtsEnd(n)
        \/ Phase2Rts(n) \/ Phase2Listen(n) \/ Phase2ListenRts(n)
        \/ Phase3Backoff(n) \/ Phase3Busy(n) \/ Phase3Transmit(n) \/ DataEnd(n)
        \/ StartNav(n) \/ CaLoopEnd(n)

Next == Dispatch \/ NoCaNext \/ CaNext

Spec == Init /\ [][Next]_vars

\* the runs of the second family of settings
SpecVariants == InitVariants /\ [][Next]_vars

\* ------------------------------------------------------------------------
\* A crowded gateway: pure ALOHA with two nodes more than the gateway has
\* demodulators, so that more than maxBSReceives packets are in flight at once
\* ------------------------------------------------------------------------
CfgAlohaCrowd == [CfgAloha EXCEPT !.nrNodes = maxBSReceives + 2]

InitGateway == cfg = CfgAlohaCrowd /\ InitRun

\* without CA only the scheduler and the non-CA branch of transmit() run
NextGateway == Dispatch \/ NoCaNext

SpecGateway == InitGateway /\ [][NextGateway]_vars

\* ------------------------------------------------------------------------
\* The packet functions on their own: setPacketType and the gateway's
\* collision test applied to two packets of any radio setting
\* ------------------------------------------------------------------------
\* the radio settings myPacket.__init__ ends with: experiments 0 and 1,
\* experiment 2, experiments 4, 6 and 7, and the search of experiments 3
\* and 5 over the sensitivity rows range(0,6) and the three bandwidths
RadioSettings ==
    {[sf |-> 12, bw |-> 125, cr |-> 4], [sf |-> 6, bw |-> 500, cr |-> 1],
     [sf |-> exp4SF, bw |-> 125, cr |-> 1]}
    \cup {[sf |-> s, bw |-> b, cr |-> 1] : s \in 6 .. 11, b \in {125, 250, 500}}

\* payload lengths (packetLength): shorter than, equal to and longer than an RTS
PayloadLengths == {1, 5, 104}

\* carrier frequencies in Hz, as arguments of frequencyCollision: 860 MHz
\* (the channel of every experiment but 1), offsets around the three
\* thresholds of frequencyCollision, and the next channel of experiment 1
Frequencies ==
    {860000000 + d : d \in {0, 30, 31, 60, 61, 120, 121}} \cup {864000000}

\* two nodes, simplified collision test, no CA
CfgRadio(plen) ==
    [BaseCfg EXCEPT !.nrNodes = 2, !.CA = FALSE, !.full_collision = FALSE,
                    !.experiment = 3, !.packetLength = plen]

\* the same with the full collision test
CfgRadioFull == [CfgRadio(104) EXCEPT !.full_collision = TRUE]

\* RSSI of the second packet (quarter dB): equal to nearRssi and on both
\* sides of it, around a distance of powerThreshold
RadioRssis == {nearRssi + d : d \in {0 - 25, 0 - 24, 0 - 23, 0, 23, 24, 25}}

\* node 0 on 860 MHz with any setting, node 1 on any of the frequencies with
\* any setting of the two extreme spreading factors; with the full
\* collision test both are on 860 MHz and node 1 has any RSSI above its
\* sensitivity
InitRadio ==
    /\ cfg \in {CfgRadio(l) : l \in PayloadLengths} \cup {CfgRadioFull}
    /\ now = 0 /\ queue = <<>> /\ cur = NoNode
    /\ pc = [n \in Nodes |-> "radio_new"]
    /\ node = [n \in Nodes |-> InitNode(cfg)]
    /\ \E r0 \in RadioSettings, r1 \in {r \in RadioSettings : r.sf \in {6, 12}},
          f \in Frequencies, g \in RadioRssis :
          /\ IF cfg.full_collision
             THEN f = 860000000 /\ g >= sensi(r1.sf, r1.bw)
             ELSE g = nearRssi
          /\ packet = [n \in Nodes |->
                      IF n = 0 THEN myPacket(n, cfg.packetLength, r0, 860000000, nearRssi)
                      ELSE myPacket(n, cfg.packetLength, r1, f, g)]
    /\ packetsAtBS = <<>>
    /\ channel_busy_rts = FALSE /\ channel_busy_data = FALSE
    /\ nrLost = 0 /\ nrCollisions = 0 /\ nrReceived = 0 /\ nrProcessed = 0
    /\ nrRTSLost = 0 /\ nrRTSCollisions = 0 /\ nrRTSReceived = 0
    /\ nrRTSProcessed = 0

\* node.packet.setPacketType(t); pc records the calls made so far: none
\* that changed the type, RTS last, or DATA after RTS
RadioSetType(n) ==
    /\ ~inFlight(n)
    /\ \E t \in {rtsPacketType, dataPacketType} :
          /\ packet' = [packet EXCEPT ![n] = setPacketType(@, t)]
          /\ pc' = [pc EXCEPT ![n] = IF t = rtsPacketType THEN "radio_rts"
                                     ELSE IF @ = "radio_rts" THEN "radio_back"
                                     ELSE @]
    /\ UNCHANGED <<cfg, now, queue, cur, node, packetsAtBS, channel, gwCounters,
                   rtsCounters>>

\* the packet of node n reaches the gateway: checkcollision and the insertion
RadioArrive(n) ==
    /\ ~inFlight(n)
    /\ LET a == Arrival(n, TRUE) IN
          /\ packet' = a.packet
          /\ node' = a.node
          /\ packetsAtBS' = a.list
    /\ UNCHANGED <<cfg, now, queue, cur, pc, channel, gwCounters, rtsCounters>>

\* the end of the reception: the packet is taken out and reset
RadioDepart(n) ==
    /\ inFlight(n)
    /\ packetsAtBS' = Remove(packetsAtBS, n)
    /\ packet' = [packet EXCEPT ![n] = ResetPacket(@)]
    /\ UNCHANGED <<cfg, now, queue, cur, pc, node, channel, gwCounters, rtsCounters>>

NextRadio == \E n \in Nodes : RadioSetType(n) \/ RadioArrive(n) \/ RadioDepart(n)

SpecRadio == InitRadio /\ [][NextRadio]_vars

\* ------------------------------------------------------------------------
\* Properties
\* ------------------------------------------------------------------------
\* the nodes whose task is inside the airtime wait of a transmission
onAirRts == {n \in Nodes : pc[n] = "rts_end"}
onAirData == {n \in Nodes : pc[n] \in {"data_end", "nca_data_end"}}

\* the time at which node n's task resumes (now, when it is running)
WakeTime(n) ==
    IF \E i \in 1 .. Len(queue) : queue[i].n = n
    THEN queue[CHOOSE i \in 1 .. Len(queue) : queue[i].n = n].t
    ELSE now

RECURSIVE SumDataSent(_)
SumDataSent(S) ==
    IF S = {} THEN 0
    ELSE LET n == CHOOSE m \in S : TRUE
         IN  node[n].n_data_sent + SumDataSent(S \ {n})

\* steps, read from the node fields before and after
Aborted(n) == node'[n].n_aborted = node[n].n_aborted + 1
Completed(n) == pc[n] \in {"data_end", "nca_data_end"} /\ pc'[n] # pc[n]
\* a CCA at want_transmit that found the channel busy
DeferWant(n) ==
    /\ cfg.CA /\ node[n].ca_state = want_transmit
    /\ node'[n].ca_state = want_transmit
    /\ node'[n].n_cca = node[n].n_cca + 1
\* a CCA at start_phase3_transmit that found the channel busy
DeferPhase3(n) ==
    /\ node[n].ca_state = start_phase3_transmit
    /\ node'[n].ca_state = want_transmit
\* the end of a NAV period
DeferNav(n) ==
    /\ node[n].ca_state = start_nav
    /\ node'[n].ca_state = want_transmit
\* a CCA of the carrier sense loop that found the channel busy
DeferCs(n) ==
    /\ ~cfg.CA
    /\ node'[n].n_cca = node[n].n_cca + 1
    /\ node'[n].n_data_sent = node[n].n_data_sent
Deferral(n) == DeferWant(n) \/ DeferPhase3(n) \/ DeferNav(n) \/ DeferCs(n)

\* CA with check_busy, check_busy_rts, CCA_prob = 100 and an RTS retry
\* count that is never decremented
reliableCa(limits) ==
    /\ cfg.CA /\ cfg.check_busy /\ cfg.check_busy_rts
    /\ cfg.CCA_prob = 100 /\ cfg.n_retry_rts \in limits

noDataCollision ==
    /\ nrCollisions = 0
    /\ \A n \in Nodes :
          packet[n].ptype = dataPacketType => packet[n].collided = 0

\* C1: in CA mode with check_busy, check_busy_rts, CCA_prob = 100 and
\* unlimited RTS retries (n_retry_rts < 0), no DATA packet is ever marked
\* collided and nrCollisions stays 0, so that the run ends with a DER of
\* exactly 1: it is not ended by an exception
C1_ReliableCaNoDataCollision ==
    reliableCa({0 - 1})
    => noDataCollision /\ \A n \in Nodes : pc[n] # "index_error"

\* what holds of it: no DATA collision, with the limit 0 as with -1
reliableCaNoDataCollision == reliableCa({0 - 1, 0}) => noDataCollision

\* with the limit 0 a DATA packet was received although a CCA found the
\* channel busy
reliableCaReceives ==
    /\ reliableCa({0})
    /\ nrReceived >= 1
    /\ \E n \in Nodes : node[n].n_busy_rts + node[n].n_busy_data >= 1

\* C2: without CA, with check_busy and CCA_prob = 100, no two DATA
\* transmissions overlap in time and no DATA packet is marked collided
C2_ReliableCsNoOverlap ==
    (~cfg.CA /\ cfg.check_busy /\ cfg.CCA_prob = 100)
    => /\ Cardinality(onAirData) <= 1
       /\ nrCollisions = 0
       /\ \A n \in Nodes : packet[n].collided = 0

\* a node waits in its busy backoff while another one is on the air
C2_Witness ==
    /\ ~cfg.CA /\ cfg.CCA_prob = 100
    /\ \E n \in Nodes, m \in Nodes :
          /\ m # n /\ pc[m] = "nca_data_end" /\ pc[n] = "nca_cca"
          /\ node[n].n_busy_data >= 1

\* C3: n_retry stays in 0 .. N_RETRY_MAX in both modes, and from 0 it only
\* changes by the abort, which resets it
C3_RetryRange ==
    /\ [](\A n \in Nodes : node[n].n_retry \in 0 .. cfg.n_retry)
    /\ [][\A n \in Nodes :
             (node[n].n_retry = 0 /\ node'[n].n_retry # 0)
             => Aborted(n) /\ node'[n].n_retry = cfg.n_retry]_vars

\* a CA node has used up its retries
C3_Witness ==
    cfg.CA /\ \E n \in Nodes : node[n].n_retry = 0 /\ node[n].n_cca >= 1

\* C4: n_retry_rts stays in 0 .. N_RETRY_RTS_MAX with a positive limit and
\* stays 1 with a negative limit; with a positive limit it is reset to the
\* limit on each passage from start_phase2_backoff to start_phase2_rts
C4_RtsRetryRange ==
    /\ [](\A n \in Nodes :
             IF cfg.n_retry_rts > 0
             THEN node[n].n_retry_rts \in 0 .. cfg.n_retry_rts
             ELSE node[n].n_retry_rts = 1)
    /\ [][\A n \in Nodes :
             (/\ cfg.n_retry_rts > 0
              /\ node[n].ca_state = start_phase2_backoff
              /\ node'[n].ca_state = start_phase2_rts)
             => node'[n].n_retry_rts = cfg.n_retry_rts]_vars

\* an RTS is on the air after its last retry was used up
C4_Witness ==
    /\ cfg.n_retry_rts > 0
    /\ \E n \in Nodes : node[n].n_retry_rts = 0 /\ pc[n] = "rts_end"

\* C5: a node is in packetsAtBS exactly while it is inside the airtime wait
\* of a transmission whose packet is not lost, and never twice
C5_InFlightExactly ==
    /\ \A n \in Nodes :
          inFlight(n) <=> (n \in onAirRts \cup onAirData /\ ~packet[n].lost)
    /\ \A i \in 1 .. Len(packetsAtBS), j \in 1 .. Len(packetsAtBS) :
          packetsAtBS[i] = packetsAtBS[j] => i = j

\* two transmissions overlap at the gateway
C5_Witness ==
    /\ Len(packetsAtBS) >= 2
    /\ \E n \in Nodes : inFlight(n) /\ packet[n].collided = 1

\* C6: every node in packetsAtBS has addTime <= now <= addTime + rectime,
\* rectime being the airtime of the packet type on the air
C6_InFlightWindow ==
    \A n \in Nodes :
        inFlight(n) =>
            LET toa == airtime(packet[n].sf, packet[n].cr,
                               IF packet[n].ptype = rtsPacketType
                               THEN rtsLength ELSE packet[n].data_len,
                               packet[n].bw)
            IN  /\ packet[n].addTime <= now
                /\ now <= packet[n].addTime + toa

\* a DATA packet that follows the node's RTS is at the end of its airtime
C6_Witness ==
    \E n \in Nodes :
        /\ inFlight(n) /\ packet[n].ptype = dataPacketType
        /\ node[n].n_rts_sent >= 1
        /\ cur = n /\ now = packet[n].addTime + packet[n].rectime

\* the latest end of the NAV period that an RTS heard at receive_rts_time
\* starts
navLimit(n) ==
    node[n].receive_rts_time + cfg.WL * packet[n].Tpream
      + airtime(packet[n].sf, packet[n].cr, rtsLength, packet[n].bw)
      + cfg.W3 * packet[n].Tpream
      + airtime(packet[n].sf, packet[n].cr, node[n].nav, packet[n].bw)
      + cfg.Wnav * packet[n].Tpream

\* the node is in the NAV period started by an RTS
inRtsNav(n) ==
    /\ node[n].ca_state = start_nav
    /\ pc[n] \in {"phase2_backoff", "phase3_backoff"}

\* C7: a node that enters start_nav for an RTS received at time t0 leaves
\* the NAV wait no later than t0 + WL*Tpream + TOA(RTS) + W3*Tpream +
\* airtime(nav) + Wnav*Tpream, from either listening phase
C7_RtsNavBound ==
    \A n \in Nodes : inRtsNav(n) => WakeTime(n) <= navLimit(n)

\* a node resumes from the NAV period of an RTS
C7_Witness ==
    \E n \in Nodes :
        /\ inRtsNav(n) /\ cur = n
        /\ now > node[n].receive_rts_time + packet[n].Tpream

\* C8: the sum of n_data_sent over the nodes is nrReceived + nrCollisions +
\* nrLost plus the number of DATA transmissions on the air, each finished
\* DATA transmission counting in exactly one of the three
C8_DataAccounting ==
    SumDataSent(Nodes)
        = nrReceived + nrCollisions + nrLost + Cardinality(onAirData)

\* a collided and a received DATA packet have been counted
C8_Witness ==
    /\ nrCollisions >= 1 /\ nrReceived >= 1
    /\ SumDataSent(Nodes) >= 2

afterAbort(n) ==
    /\ cfg.CA /\ cur = n /\ pc[n] \in {"start_CA", "loop"}
    /\ node[n].ca_state = want_transmit /\ packet[n].ptype = dataPacketType
    /\ ~node[n].cca /\ node[n].nav = 0 /\ node[n].n_retry = cfg.n_retry

C10_AbortAfterMaxDeferrals ==
    [][\A n \in Nodes :
          /\ Deferral(n) => node'[n].n_retry = node[n].n_retry - 1
          /\ Aborted(n) => node[n].n_retry = 0 /\ node'[n].n_retry = cfg.n_retry
          /\ node'[n].n_retry # node[n].n_retry
             => Deferral(n) \/ Aborted(n) \/ Completed(n)
          /\ node[n].n_retry = 0
             => /\ node'[n].n_cca = node[n].n_cca
                /\ node'[n].n_data_sent = node[n].n_data_sent
                /\ node'[n].n_rts_sent = node[n].n_rts_sent
          /\ pc[n] = "rts_cca" => node'[n].n_retry = node[n].n_retry]_vars

\* a CA packet was aborted after deferrals of more than one kind
C10_Witness ==
    \E n \in Nodes :
        /\ cfg.CA /\ node[n].n_aborted >= 1
        /\ node[n].n_rts_sent >= 1


\* C11: without CA and without check_busy no packet is aborted, n_retry stays
\* N_RETRY_MAX, and every scheduled opportunity puts its DATA packet on the
\* air at the instant its schedule wait ends, whatever the busy flags
C11_AlohaAlwaysTransmits ==
    (~cfg.CA /\ ~cfg.check_busy)
    => \A n \in Nodes :
          /\ node[n].n_aborted = 0
          /\ node[n].n_retry = cfg.n_retry
          /\ node[n].latency = 0
          /\ pc[n] = "nca_cca" => cur = n /\ now = node[n].want_transmit_time
          /\ pc[n] = "nca_data_end"
             => /\ packet[n].addTime = node[n].want_transmit_time
                /\ node[n].n_data_sent = node[n].cycle

\* an ALOHA transmission has started while the DATA flag was set
C11_Witness ==
    /\ ~cfg.CA /\ ~cfg.check_busy
    /\ Len(packetsAtBS) >= 2
    /\ \A n \in Nodes : pc[n] = "nca_data_end"

\* the CCA cannot report a busy channel: CCA_prob = 0, or no CCA is made
ccaOff ==
    cfg.CCA_prob = 0 \/ (~cfg.check_busy /\ (cfg.CA => ~cfg.check_busy_rts))

caEdges ==
    {<<schedule_tx, want_transmit>>, <<want_transmit, start_CA>>,
     <<start_CA, start_phase1_listen>>, <<start_CA, start_phase2_backoff>>,
     <<start_phase1_listen, start_nav>>,
     <<start_phase1_listen, start_phase2_backoff>>,
     <<start_phase2_backoff, start_phase2_rts>>,
     <<start_phase2_rts, start_phase2_listen>>,
     <<start_phase2_listen, start_nav>>,
     <<start_phase2_listen, start_phase3_backoff>>,
     <<start_phase3_backoff, start_phase3_transmit>>,
     <<start_phase3_transmit, want_transmit>>,
     <<start_phase3_transmit, schedule_tx>>,
     <<start_nav, want_transmit>>}
     \cup (IF cfg.CA1 THEN {<<start_phase2_rts, start_phase3_backoff>>} ELSE {})

caStep(n) ==
    /\ node'[n].ca_state \in schedule_tx .. start_nav
    /\ node'[n].ca_state # node[n].ca_state
       => <<node[n].ca_state, node'[n].ca_state>> \in caEdges

C13_CaStateEdges ==
    /\ cfg.CA => \A n \in Nodes : node[n].ca_state = schedule_tx
    /\ [][cfg.CA => \A n \in Nodes : caStep(n)]_vars

\* a node is back in schedule_tx after its DATA while another one, which
\* went through a NAV period, is past its RTS
C13_Witness ==
    /\ cfg.CA
    /\ \E n, m \in Nodes :
          /\ node[n].n_data_sent >= 1 /\ node[n].ca_state = schedule_tx
          /\ node[m].n_retry < cfg.n_retry /\ node[m].n_rts_sent >= 1
          /\ node[m].ca_state \in {start_phase2_listen, start_phase3_backoff}

\* the CA1 edge has been taken
ca1EdgeTaken ==
    cfg.CA1 /\ \E n \in Nodes : pc[n] = "phase2_listen"
                                 /\ node[n].ca_state = start_phase3_backoff

\* ------------------------------------------------------------------------
\* C14: a packet has pl = 5 as RTS and pl = data_len as DATA, and rectime =
\* airtime(sf, cr, pl, bw); setPacketType(RTS) followed by
\* setPacketType(DATA) gives back the pl and rectime of the constructed
\* packet, and setPacketType applied twice is setPacketType applied once.
constructed(p) ==
    myPacket(p.nodeid, p.data_len, [sf |-> p.sf, bw |-> p.bw, cr |-> p.cr], p.freq,
             p.rssi)

C14_PacketTypeLength ==
    \A n \in Nodes :
        LET p == packet[n]
            back == setPacketType(setPacketType(constructed(p), rtsPacketType),
                                  dataPacketType)
        IN  /\ p.ptype \in {rtsPacketType, dataPacketType}
            /\ p.pl = IF p.ptype = rtsPacketType THEN 5 ELSE p.data_len
            /\ p.rectime = airtime(p.sf, p.cr, p.pl, p.bw)
            /\ pc[n] \in {"radio_new", "radio_back"}
               => p.pl = constructed(p).pl /\ p.rectime = constructed(p).rectime
            /\ back.pl = constructed(p).pl /\ back.rectime = constructed(p).rectime
            /\ \A t \in {rtsPacketType, dataPacketType} :
                  setPacketType(setPacketType(p, t), t) = setPacketType(p, t)

\* a long packet with implicit header that was turned into an RTS and back
C14_Witness ==
    \E n \in Nodes :
        /\ pc[n] = "radio_back" /\ packet[n].sf = 6 /\ packet[n].data_len > rtsLength
        /\ packet[n].ptype = dataPacketType
        /\ packet[n].rectime > airtime(packet[n].sf, packet[n].cr, rtsLength,
                                       packet[n].bw)

\* ------------------------------------------------------------------------
\* C15: with a single node, with or without CA, the in-flight list is empty
\* whenever the node's packet arrives, no packet is marked collided and
\* nrCollisions stays 0, no packet is aborted, and every DATA transmission
\* that has ended is counted in nrReceived.
singleNode == cfg.nrNodes = 1

C15_SingleNodeNoCollision ==
    /\ [](singleNode
           => /\ packet[0].collided = 0 /\ ~packet[0].lost
              /\ nrCollisions = 0 /\ nrRTSCollisions = 0 /\ nrLost = 0
              /\ node[0].n_aborted = 0
              /\ packetsAtBS # <<>> => packetsAtBS = <<0>> /\ 0 \in onAirRts \cup onAirData
              /\ nrReceived = node[0].n_data_sent - Cardinality(onAirData))
    /\ [][singleNode /\ Len(packetsAtBS') > Len(packetsAtBS) => packetsAtBS = <<>>]_vars

\* a single node without CA has had its DATA received
C15_Witness ==
    singleNode /\ ~cfg.CA /\ nrReceived = 1 /\ node[0].n_data_sent = 1

\* ------------------------------------------------------------------------
\* C16: in a single-node CA run, n_rts_sent = n_data_sent whenever the node
\* is in schedule_tx, n_rts_sent - n_data_sent is always 0 or 1, the node
\* never enters start_nav and never finds the channel busy.
C16_SingleNodeRtsPerData ==
    (singleNode /\ cfg.CA)
    => /\ node[0].n_rts_sent - node[0].n_data_sent \in {0, 1}
       /\ node[0].ca_state = schedule_tx => node[0].n_rts_sent = node[0].n_data_sent
       /\ node[0].ca_state # start_nav
       /\ node[0].n_busy_rts = 0 /\ node[0].n_busy_data = 0
       /\ ~node[0].cca /\ node[0].n_retry = cfg.n_retry
       /\ node[0].nav = 0 /\ ~node[0].receive_rts /\ ~node[0].receive_data

\* the single node is back in schedule_tx after one RTS and one DATA
C16_Witness ==
    /\ singleNode /\ cfg.CA /\ node[0].ca_state = schedule_tx
    /\ node[0].n_rts_sent = 1 /\ node[0].n_data_sent = 1 /\ nrReceived = 1

\* ------------------------------------------------------------------------
\* C17: with the simplified collision test (full_collision = False), two
\* packets of the same SF and carrier frequency that are in flight together
\* and are not lost are both marked collided; a packet marked collided
\* stays so until its transmission ends and is then counted as a collision
\* and not as received.
overlapping(n, m) ==
    /\ n # m /\ inFlight(n) /\ inFlight(m)
    /\ ~packet[n].lost /\ ~packet[m].lost
    /\ packet[n].sf = packet[m].sf /\ packet[n].freq = packet[m].freq

countedCollided(n) ==
    IF packet[n].ptype = rtsPacketType
    THEN nrRTSCollisions' = nrRTSCollisions + 1 /\ nrRTSReceived' = nrRTSReceived
    ELSE nrCollisions' = nrCollisions + 1 /\ nrReceived' = nrReceived

C17_SimplifiedCollision ==
    /\ [](~cfg.full_collision
           => \A n, m \in Nodes :
                 overlapping(n, m) => packet[n].collided = 1 /\ packet[m].collided = 1)
    /\ [][~cfg.full_collision
           => \A n \in Nodes :
                 inFlight(n) /\ packet[n].collided = 1
                 => IF inFlight(n)' THEN packet'[n].collided = 1
                    ELSE countedCollided(n)]_vars

\* one of two overlapping DATA packets has ended and was counted as a
\* collision; the other, still marked collided, is alone in flight
C17_Witness ==
    /\ ~cfg.full_collision /\ nrCollisions >= 1 /\ nrReceived = 0
    /\ \E n \in Nodes : /\ packetsAtBS = <<n>> /\ packet[n].collided = 1
                         /\ packet[n].ptype = dataPacketType

\* ------------------------------------------------------------------------
\* C18: latency changes only in the step that starts a DATA transmission,
\* where it grows by now - want_transmit_time; want_transmit_time is set
\* to the current time at the initial attempt of a packet (no retry used
\* yet, neither the cca nor the nav mark set) and at no other step, so not
\* on a retry after a busy CCA or after NAV; an abort changes neither
\* latency nor n_data_sent.
startsData(n) ==
    /\ node'[n].n_data_sent = node[n].n_data_sent + 1
    /\ pc'[n] \in {"data_end", "nca_data_end"}

stamped(n) == node'[n].want_transmit_time # node[n].want_transmit_time

latencyStep(n) ==
    /\ IF startsData(n)
       THEN node'[n].latency = node[n].latency + (now - node[n].want_transmit_time)
       ELSE node'[n].latency = node[n].latency
    /\ stamped(n)
       => /\ node'[n].want_transmit_time = now
          /\ node[n].n_retry = cfg.n_retry /\ ~node[n].cca /\ node[n].nav = 0
          /\ pc'[n] \in {"start_CA", "nca_cca"}
    /\ (/\ cur = n /\ pc'[n] \in {"start_CA", "nca_cca"} /\ pc[n] # "nca_cca"
        /\ node[n].n_retry = cfg.n_retry /\ ~node[n].cca /\ node[n].nav = 0
        /\ node'[n].n_aborted = node[n].n_aborted)
       => node'[n].want_transmit_time = now
    /\ Aborted(n) => /\ node'[n].latency = node[n].latency
                     /\ node'[n].n_data_sent = node[n].n_data_sent
                     /\ ~stamped(n)

C18_LatencyFrame == [][\A n \in Nodes : latencyStep(n)]_vars

\* a CA node is sending DATA after a deferral; its latency is the time
\* from the initial attempt to the start of the DATA transmission
C18_Witness ==
    /\ cfg.CA
    /\ \E n \in Nodes :
          /\ pc[n] = "data_end" /\ node[n].n_retry < cfg.n_retry
          /\ node[n].n_data_sent = 1
          /\ node[n].latency = packet[n].addTime - node[n].want_transmit_time
          /\ node[n].latency > 0

\* ------------------------------------------------------------------------
\* C19 as stated: a task returns only after nrProcessed has exceeded the
\* target, and a task that has returned is in schedule_tx.
target == cfg.targetSentPacket * cfg.nrNodes

C19_ReturnsInScheduleTx ==
    \A n \in Nodes :
        pc[n] = "returned"
        => nrProcessed > target /\ node[n].ca_state = schedule_tx

\* C19 as amended: a task returns only after nrProcessed has exceeded the
\* target, at the end of a pass of its loop; it is then off the air and in
\* schedule_tx or in want_transmit, and in want_transmit it may have left
\* a packet attempt unfinished.
C19_ReturnsAtLoopEnd ==
    /\ [](\A n \in Nodes :
             pc[n] = "returned"
             => /\ nrProcessed > target
                /\ node[n].ca_state \in {schedule_tx, want_transmit}
                /\ ~inFlight(n) /\ packet[n].ptype = dataPacketType)
    /\ [][\A n \in Nodes :
             /\ pc[n] = "returned" => pc'[n] = "returned" /\ node'[n] = node[n]
             /\ pc[n] # "returned" /\ pc'[n] = "returned"
                => cur = n /\ nrProcessed' > target]_vars

\* one task has returned in schedule_tx after its DATA, another one in
\* want_transmit with a retry of its packet used up
C19_Witness ==
    \E n, m \in Nodes :
        /\ pc[n] = "returned" /\ node[n].ca_state = schedule_tx
        /\ pc[m] = "returned" /\ node[m].ca_state = want_transmit
        /\ node[m].n_retry < cfg.n_retry /\ node[m].n_data_sent = 0

\* ------------------------------------------------------------------------
\* C20 as stated: frequencyCollision(p1, p2) is true exactly when
\* |f1 - f2| <= 120 kHz and either packet has bandwidth 500, or
\* |f1 - f2| <= 60 kHz and either packet has bandwidth 250, or
\* |f1 - f2| <= 30 kHz; and its result does not depend on the order of the
\* two packets.
statedFrequencyCollision(p1, p2) ==
    LET d == Abs(p1.freq - p2.freq) IN
        \/ d <= 120000 /\ (p1.bw = 500 \/ p2.bw = 500)
        \/ d <= 60000 /\ (p1.bw = 250 \/ p2.bw = 250)
        \/ d <= 30000

frequencyCollisionSymmetric ==
    \A n, m \in Nodes :
        frequencyCollision(packet[n], packet[m])
            = frequencyCollision(packet[m], packet[n])

\* ------------------------------------------------------------------------
\* C21: powerCollision(p1, p2) returns both packets when their RSSI differ
\* by less than powerThreshold (6 dB) and otherwise exactly the packet with
\* the lower RSSI: never the empty set, never the stronger packet alone.
\* At the gateway, with the full collision test, the packets marked by two
\* overlapping packets of the same SF and frequency are those casualties.
weaker(p1, p2) == IF p1.rssi < p2.rssi THEN p1.nodeid ELSE p2.nodeid

C21_PowerCollision ==
    \A n, m \in Nodes :
        n # m
        => LET c == powerCollision(packet[n], packet[m])
               close == Abs(packet[n].rssi - packet[m].rssi) < powerThreshold
           IN  /\ c # {}
               /\ close => c = {n, m}
               /\ ~close => c = {weaker(packet[n], packet[m])}
               /\ (/\ cfg.full_collision /\ packetsAtBS = <<m, n>>
                   /\ packet[n].sf = packet[m].sf)
                  => \A k \in {n, m} : packet[k].collided = 1 <=> k \in c

\* the arriving packet is the stronger one by exactly powerThreshold: it
\* survives and the one in flight is destroyed
C21_Witness ==
    /\ cfg.full_collision /\ packetsAtBS = <<0, 1>>
    /\ packet[1].rssi = packet[0].rssi + powerThreshold
    /\ packet[0].collided = 1 /\ packet[1].collided = 0

\* ------------------------------------------------------------------------
\* C22: with the full collision test, an arriving packet p and a packet o
\* in flight with overlapping frequency and the same SF go to the power
\* check only if now + (2^SF_p / BW_p) * (8 - 5) < o.addTime + o.rectime;
\* otherwise that pair marks neither of them. p is marked collided on
\* arrival iff the power check of some pair names p, and o becomes
\* collided iff the power check of its pair names o.
arrives(n) == ~inFlight(n) /\ packetsAtBS' = Append(packetsAtBS, n)

\* (2^sf / bw) ms * (8 - 5), in microseconds
criticalSection(p) == (Pow2(p.sf) * 1000 * (8 - 5)) \div p.bw

powerChecked(n) ==
    {o \in Nodes : /\ o # n /\ inFlight(o)
                   /\ frequencyCollision(packet[n], packet[o])
                   /\ packet[n].sf = packet[o].sf
                   /\ now + criticalSection(packet[n])
                        < packet[o].addTime + packet[o].rectime}

C22_TimingGate ==
    [][cfg.full_collision
       => \A n \in Nodes :
             arrives(n)
             => /\ packet'[n].collided = 1
                   <=> \E o \in powerChecked(n) :
                          n \in powerCollision(packet[n], packet[o])
                /\ \A o \in Nodes \ {n} :
                      packet'[o].collided = 1
                      <=> \/ packet[o].collided = 1
                          \/ /\ o \in powerChecked(n)
                             /\ o \in powerCollision(packet[n], packet[o])]_vars

\* a packet has just arrived less than three symbols before the end of the
\* packet in flight, and neither is marked collided
C22_Witness ==
    /\ cfg.full_collision
    /\ \E n, o \in Nodes :
          /\ packetsAtBS = <<o, n>> /\ packet[n].addTime = now
          /\ pc[n] \in {"rts_end", "data_end", "nca_data_end"}
          /\ now < packet[o].addTime + packet[o].rectime
          /\ now + criticalSection(packet[n]) >= packet[o].addTime + packet[o].rectime
          /\ packet[n].collided = 0 /\ packet[o].collided = 0

\* ------------------------------------------------------------------------
\* C23 as stated: at every instant the number of packets in flight whose
\* processed flag is 1 is at most maxBSReceives.
processedInFlight == {n \in Nodes : inFlight(n) /\ packet[n].processed = 1}

C23_ProcessedWithinCapacity == Cardinality(processedInFlight) <= maxBSReceives

\* what the test of checkcollision does keep: one packet more than that
processedWithinCapacityPlusOne ==
    Cardinality(processedInFlight) <= maxBSReceives + 1

\* ------------------------------------------------------------------------
\* C24 as stated: when a packet arrives and is not collided on arrival,
\* every other node that is listening and holds no hint gets the hint of
\* the packet; a node that already holds a hint keeps it unchanged, a node
\* that is not listening is unchanged, and a packet collided on arrival
\* sets no hint.
inListenPeriod(nd) ==
    nd.ca_state = start_phase1_listen \/ nd.ca_state = start_phase2_listen

holdsHint(nd) == nd.receive_rts \/ nd.receive_data

\* the node nd with the hint of the packet arriving from node n
withHint(nd, n) ==
    IF packet[n].ptype = rtsPacketType
    THEN [nd EXCEPT !.receive_rts = TRUE, !.receive_rts_from = n,
                    !.receive_rts_time = now, !.nav = packet[n].data_len]
    ELSE [nd EXCEPT !.receive_data = TRUE, !.receive_data_from = n,
                    !.receive_data_time = now, !.nav = cfg.max_payload_size]

C24_HintsFirstWins ==
    [][cfg.CA
       => \A n \in Nodes :
             arrives(n)
             => \A m \in Nodes \ {n} :
                   node'[m] =
                      IF /\ packet'[n].collided = 0 /\ inListenPeriod(node[m])
                         /\ ~holdsHint(node[m])
                      THEN withHint(node[m], n)
                      ELSE node[m]]_vars

\* C24 as amended: the arrival first clears every hint whose source packet
\* is in flight and marked collided once the arrival has been evaluated;
\* then, if the arriving packet is not collided, every other node that is
\* listening and holds no hint gets its hint. Every other hint and every
\* other node is unchanged.
destroyed(o) == inFlight(o) /\ packet'[o].collided = 1

afterCancel(nd) ==
    [nd EXCEPT !.receive_rts = @ /\ ~destroyed(nd.receive_rts_from),
               !.receive_data = @ /\ ~destroyed(nd.receive_data_from)]

C24_HintsAfterCancel ==
    [][cfg.CA
       => \A n \in Nodes :
             arrives(n)
             => \A m \in Nodes \ {n} :
                   node'[m] =
                      IF /\ packet'[n].collided = 0 /\ inListenPeriod(node[m])
                         /\ ~holdsHint(afterCancel(node[m]))
                      THEN withHint(afterCancel(node[m]), n)
                      ELSE afterCancel(node[m])]_vars

\* node m was listening when o arrived; n, arriving later and stronger,
\* destroyed o, and m now holds the hint of n
C24_Witness ==
    /\ cfg.CA
    /\ \E m, n, o \in Nodes :
          /\ m # n /\ m # o /\ packetsAtBS = <<o, n>>
          /\ packet[o].collided = 1 /\ packet[n].collided = 0
          /\ packet[n].addTime = now /\ pc[n] = "rts_end"
          /\ inListenPeriod(node[m])
          /\ WakeTime(m) - ListenTime(m) <= packet[o].addTime
          /\ node[m].receive_rts /\ node[m].receive_rts_from = n
          /\ node[m].receive_rts_time = now

\* ------------------------------------------------------------------------
\* C25: in every state no node holds a hint whose source transmission is
\* still in flight and marked collided, and an arrival that marks a packet
\* in flight collided leaves no hint from that packet on any node.
hintSourceCollided(nd) ==
    \/ /\ nd.receive_rts /\ inFlight(nd.receive_rts_from)
       /\ packet[nd.receive_rts_from].addTime = nd.receive_rts_time
       /\ packet[nd.receive_rts_from].collided = 1
    \/ /\ nd.receive_data /\ inFlight(nd.receive_data_from)
       /\ packet[nd.receive_data_from].addTime = nd.receive_data_time
       /\ packet[nd.receive_data_from].collided = 1

noHintFromCollided == \A m \in Nodes : ~hintSourceCollided(node[m])

arrivalClearsHints ==
    \A n \in Nodes :
       arrives(n)
       => \A o \in Nodes :
             inFlight(o) /\ packet[o].collided = 0 /\ packet'[o].collided = 1
             => \A m \in Nodes :
                   /\ ~(node'[m].receive_rts /\ node'[m].receive_rts_from = o)
                   /\ ~(node'[m].receive_data /\ node'[m].receive_data_from = o)

CfgCaLimited == [CfgCaReliable EXCEPT !.n_retry_rts = 1]

InitFair ==
    /\ cfg \in {CfgCaReliable, CfgCaUnlimited, CfgCaLimited, CfgCsReliable}
    /\ InitRun

SpecFair == InitFair /\ [][Next]_vars /\ WF_vars(Next)

\* no event is left before simtime
simEnded == cur = NoNode /\ (queue = <<>> \/ Head(queue).t >= simtime)

\* C26: a node that reaches PHASE2_BACKOFF transmits an RTS in that pass
\* unless the simulation ends first: its task goes from PHASE2_BACKOFF to
\* the CCA loop, every step of the loop is either a busy detection followed
\* by a backoff wait or the transmission of the RTS, and with a positive
\* limit a pass starts with N_RETRY_RTS_MAX retries and each busy detection
\* uses one, so at most N_RETRY_RTS_MAX backoff waits precede the RTS.
rtsRetriesInRange ==
    cfg.CA /\ cfg.n_retry_rts > 0
    => \A n \in Nodes : node[n].n_retry_rts \in 0 .. cfg.n_retry_rts

rtsPassStep ==
    \A n \in Nodes :
       cfg.CA /\ cur = n /\ cur' # n
       => /\ node[n].ca_state = start_phase2_backoff
             => \/ pc'[n] = "rts_end"
                \/ /\ pc'[n] = "rts_cca"
                   /\ cfg.n_retry_rts > 0
                      => node'[n].n_retry_rts = cfg.n_retry_rts - 1
          /\ pc[n] = "rts_cca"
             => \/ /\ pc'[n] = "rts_end"
                   /\ node'[n].n_rts_sent = node[n].n_rts_sent + 1
                   /\ packet'[n].ptype = rtsPacketType
                   /\ packet'[n].lost \/ inFlight(n)'
                \/ /\ pc'[n] = "rts_cca"
                   /\ cfg.check_busy_rts /\ node[n].n_retry_rts # 0
                   /\ channel_busy_rts \/ channel_busy_data
                   /\ node'[n].n_retry_rts =
                         IF cfg.n_retry_rts > 0 THEN node[n].n_retry_rts - 1
                         ELSE node[n].n_retry_rts
                   /\ WakeTime(n)' > now
                   /\ packetsAtBS' = packetsAtBS

rtsEventually ==
    \A n \in 0 .. (NumNodes - 1) :
       (cfg.CA /\ n \in Nodes /\ node[n].ca_state = start_phase2_backoff)
       ~> ((n \in Nodes /\ pc[n] = "rts_end") \/ simEnded)

C26_RtsAlwaysSent ==
    /\ []rtsRetriesInRange
    /\ [][rtsPassStep]_vars
    /\ rtsEventually

\* what holds of it: the same with a limit that is not negative
rtsAlwaysSentValidLimit ==
    /\ []rtsRetriesInRange
    /\ [][cfg.n_retry_rts >= 0 => rtsPassStep]_vars
    /\ rtsEventually

\* an RTS has just been put on the air after N_RETRY_RTS_MAX busy detections
rtsSentAfterLastRetry ==
    /\ cfg.CA /\ cfg.n_retry_rts > 0
    /\ \E n \in Nodes :
          /\ pc[n] = "rts_end" /\ inFlight(n) /\ packet[n].addTime = now
          /\ node[n].n_retry_rts = 0
          /\ channel_busy_data \/ Len(packetsAtBS) > 1

\* ------------------------------------------------------------------------
\* C27: with CA and check_busy, the step taken at PHASE3_TRANSMIT either
\* puts the DATA on the air, and then a fully reliable CCA had a free
\* channel, or is the busy outcome: the channel was busy, cca becomes true,
\* n_retry loses one, the node is back in WANT_TRANSMIT, and nothing is on
\* the air: packetsAtBS, the packets, the busy flags, n_data_sent and
\* latency are unchanged.
channelBusy == channel_busy_rts \/ channel_busy_data

C27_NoDataWhenBusy ==
    [][\A n \in Nodes :
          /\ cfg.CA /\ cfg.check_busy /\ cur = n /\ pc[n] # "data_end"
          /\ node[n].ca_state = start_phase3_transmit
          /\ packet[n].ptype = dataPacketType
          /\ node'[n] # node[n]
          => \/ /\ inFlight(n)' /\ pc'[n] = "data_end"
                /\ node'[n].n_data_sent = node[n].n_data_sent + 1
                /\ cfg.CCA_prob = 100 => ~channelBusy
             \/ /\ channelBusy /\ cfg.CCA_prob # 0
                /\ node'[n].cca
                /\ node'[n].n_retry = node[n].n_retry - 1
                /\ node'[n].ca_state = want_transmit
                /\ node'[n].n_data_sent = node[n].n_data_sent
                /\ node'[n].latency = node[n].latency
                /\ packetsAtBS' = packetsAtBS /\ packet' = packet
                /\ channel' = channel]_vars

\* a node has just found the channel busy at PHASE3_TRANSMIT: it is back in
\* WANT_TRANSMIT with its DATA packet, and not on the air
C27_Witness ==
    /\ cfg.CA /\ cfg.check_busy /\ channelBusy
    /\ \E n \in Nodes :
          /\ cur = n /\ pc[n] = "start_nav"
          /\ node[n].ca_state = want_transmit /\ node[n].cca
          /\ node[n].n_retry = cfg.n_retry - 1
          /\ packet[n].ptype = dataPacketType
          /\ ~inFlight(n) /\ node[n].n_rts_sent > 0

\* ------------------------------------------------------------------------
\* C28 as stated: Wbusy_BE is always between its initial value and
\* Wbusy_maxBE, and with the exponential backoff enabled it never decreases
\* during one packet's attempt, that is, in any step other than an abort or
\* the completion of the DATA transmission.
exponentInRange ==
    \A n \in Nodes : node[n].Wbusy_BE \in cfg.Wbusy_BE .. cfg.Wbusy_maxBE

abortStep(n) == node'[n].n_aborted = node[n].n_aborted + 1

dataCompletes(n) == pc[n] \in {"data_end", "nca_data_end"}

exponentNeverDecreases ==
    cfg.Wbusy_exp_backoff
    => \A n \in Nodes :
          \/ node'[n].Wbusy_BE >= node[n].Wbusy_BE
          \/ abortStep(n)
          \/ dataCompletes(n)

C28_ExponentMonotonic == []exponentInRange /\ [][exponentNeverDecreases]_vars

\* C28 as amended: Wbusy_BE is always between its initial value and
\* Wbusy_maxBE; a step raises it by one, on a busy detection with the
\* exponential backoff enabled, or resets it to its initial value, at an
\* abort, at the start of the RTS pass (PHASE2_BACKOFF, with CA) or at the
\* completion of the DATA transmission (without CA), or leaves it alone.
\* Without CA it never decreases during one packet's attempt.
rtsPassStarts(n) ==
    /\ cfg.CA /\ cur = n
    /\ node[n].ca_state = start_phase2_backoff
    /\ node'[n].ca_state = start_phase2_rts

exponentStep ==
    \A n \in Nodes :
       \/ node'[n].Wbusy_BE = node[n].Wbusy_BE
       \/ /\ node'[n].Wbusy_BE = node[n].Wbusy_BE + 1
          /\ cfg.Wbusy_exp_backoff /\ channelBusy /\ cur = n
          /\ node'[n].n_cca = node[n].n_cca + 1
          /\ WakeTime(n)' > now
       \/ /\ node'[n].Wbusy_BE = cfg.Wbusy_BE
          /\ \/ abortStep(n)
             \/ rtsPassStarts(n)
             \/ ~cfg.CA /\ pc[n] = "nca_data_end"

C28_ExponentResets == []exponentInRange /\ [][exponentStep]_vars

\* with CA, a node that raised its exponent while deferring at
\* WANT_TRANSMIT is about to start its RTS pass, where it is reset
C28_Witness ==
    /\ cfg.CA /\ cfg.Wbusy_exp_backoff
    /\ \E n \in Nodes :
          /\ cur = n /\ node[n].ca_state = start_phase2_backoff
          /\ node[n].Wbusy_BE > cfg.Wbusy_BE
          /\ node[n].n_aborted = 0 /\ node[n].n_data_sent = 0

\* ------------------------------------------------------------------------
\* C29: the completion of a DATA transmission and an abort leave the node
\* with n_retry = n_retry of the run, cca = false, nav = 0 and Wbusy_BE at
\* its initial value, and every initial attempt (the step that stamps
\* want_transmit_time) starts from that state, with CA as without.
attemptStateReset(nd) ==
    /\ nd.n_retry = cfg.n_retry /\ ~nd.cca /\ nd.nav = 0
    /\ nd.Wbusy_BE = cfg.Wbusy_BE

C29_AttemptStateReset ==
    [][\A n \in Nodes :
          /\ Completed(n) \/ Aborted(n) => attemptStateReset(node'[n])
          /\ stamped(n) => attemptStateReset(node[n])]_vars

\* what the code keeps: the same with Wbusy_BE left out when CA is used
attemptStateResetButExponent ==
    [][\A n \in Nodes :
          /\ Completed(n) \/ Aborted(n)
             => attemptStateReset([node'[n] EXCEPT
                   !.Wbusy_BE = IF cfg.CA /\ ~Aborted(n) THEN cfg.Wbusy_BE ELSE @])
          /\ stamped(n)
             => attemptStateReset([node[n] EXCEPT
                   !.Wbusy_BE = IF cfg.CA THEN cfg.Wbusy_BE ELSE @])]_vars

\* ------------------------------------------------------------------------
\* C30: at START_CA the node goes to PHASE1_LISTEN if and only if its draw
\* my_P is greater than P, and to PHASE2_BACKOFF otherwise; with P = 0 it
\* goes to PHASE1_LISTEN whatever the draw, and with P = 100 to
\* PHASE2_BACKOFF whatever the draw.
leavesStartCA(n) ==
    /\ cfg.CA /\ cur = n /\ node[n].ca_state = start_CA
    /\ packet[n].ptype = rtsPacketType
    /\ node'[n].ca_state # start_CA

startPhaseByDraw(n) ==
    node'[n].ca_state =
       IF node[n].my_P > cfg.P THEN start_phase1_listen ELSE start_phase2_backoff

C30_StartPhase ==
    [][\A n \in Nodes :
          leavesStartCA(n)
          => /\ startPhaseByDraw(n)
             /\ cfg.P = 0 => node'[n].ca_state = start_phase1_listen
             /\ cfg.P = 100 => node'[n].ca_state = start_phase2_backoff]_vars

\* what the code keeps: the rule of the draw, and phase 2 for every draw
\* with P = 100
startPhaseRule ==
    [][\A n \in Nodes :
          leavesStartCA(n)
          => /\ startPhaseByDraw(n)
             /\ cfg.P = 100 => node'[n].ca_state = start_phase2_backoff]_vars

\* with P = 100 a node that drew my_P = 100 is in PHASE2_BACKOFF
startsInPhase2 ==
    /\ cfg.CA /\ cfg.P = 100
    /\ \E n \in Nodes :
          node[n].ca_state = start_phase2_backoff /\ node[n].my_P = 100

\* ------------------------------------------------------------------------
\* runs with CA only, with a reliable CCA, a random NAV extension and a
\* phase-2 window after NAV (W2afterNAV) smaller than W2
CfgCaNav == [CfgCaReliable EXCEPT !.W2afterNAV = 0, !.Wnav = 1, !.n_retry_rts = 1]

InitNav == cfg = CfgCaNav /\ InitRun

NextNav == Dispatch \/ CaNext

SpecNav == InitNav /\ [][NextNav]_vars

\* C31: when W2afterNAV differs from W2, a node that re-entered
\* WANT_TRANSMIT after a NAV (its W2 is W2afterNAV) draws the backoff of its
\* next PHASE2_BACKOFF in [0, W2afterNAV].
entersPhase2Backoff(n) ==
    /\ cfg.CA /\ cur = n
    /\ node[n].ca_state # start_phase2_backoff
    /\ node'[n].ca_state = start_phase2_backoff

C31_WindowAfterNav ==
    [][\A n \in Nodes :
          /\ cfg.W2afterNAV # cfg.W2 /\ node[n].W2 = cfg.W2afterNAV
          /\ entersPhase2Backoff(n)
          => node'[n].backoff \in 0 .. cfg.W2afterNAV]_vars

\* what the code keeps: every phase-2 backoff is drawn in [0, W2]
windowIsW2 ==
    [][\A n \in Nodes :
          entersPhase2Backoff(n) => node'[n].backoff \in 0 .. cfg.W2]_vars

\* ------------------------------------------------------------------------
\* C32: the CCA before a transmission, the collision evaluation, the
\* insertion in packetsAtBS and the setting of the busy flag are one step of
\* the transmitting task, which then suspends; only the task that is
\* running changes the list, and a flag set by a transmission that started
\* at this instant is cleared by nothing but the end of a transmission. So
\* a second node that wakes up at the same instant reads the flag set.
inAirtimeWait(n) == pc[n] \in {"rts_end", "data_end", "nca_data_end"}

flagOf(n) ==
    IF pc[n] = "rts_end" THEN channel_busy_rts ELSE channel_busy_data

startsNow(m) == inAirtimeWait(m) /\ inFlight(m) /\ packet[m].addTime = now

transmissionSection ==
    \A n \in Nodes :
       /\ ~inFlight(n) /\ inFlight(n)'
          => /\ cur = n /\ cur' = NoNode
             /\ ~inAirtimeWait(n) /\ inAirtimeWait(n)' /\ flagOf(n)'
             /\ packet'[n].addTime = now /\ WakeTime(n)' = now + packet[n].rectime
       /\ inFlight(n)' # inFlight(n) => cur = n
       /\ startsNow(n) /\ flagOf(n) /\ ~flagOf(n)'
          => \E k \in Nodes \ {n} : cur = k /\ inAirtimeWait(k)

\* the tasks run one at a time: a step of the running task changes the
\* position of no other task
oneTaskAtATime ==
    \A n, m \in Nodes : cur = n /\ m # n => pc'[m] = pc[m]

retriesInRange == \A n \in Nodes : node[n].n_retry \in 0 .. cfg.n_retry

attemptsEnded(n) == node[n].n_data_sent + node[n].n_aborted

\* no node ends more attempts than this before simtime
MaxAttempts == 2

attemptsCounted == \A n \in Nodes : attemptsEnded(n) <= MaxAttempts

attemptEnds ==
    \A n \in 0 .. (NumNodes - 1), k \in 0 .. MaxAttempts :
       (n \in Nodes /\ attemptsEnded(n) = k)
       ~> ((n \in Nodes /\ attemptsEnded(n) > k) \/ simEnded)

C33_AttemptEnds ==
    /\ []retriesInRange /\ []attemptsCounted
    /\ attemptEnds /\ <>simEnded

\* a packet has been aborted after its deferrals and another one has been
\* transmitted in the same run
C33_Witness ==
    /\ \E n \in Nodes : node[n].n_aborted > 0 /\ node[n].n_retry = cfg.n_retry
    /\ \E m \in Nodes : node[m].n_data_sent > 0

\* ------------------------------------------------------------------------
\* C34: at the end of a listening period with a DATA hint (and no RTS hint)
\* the node enters START_NAV; for some extra in [0, Wnav] it waits
\* airtime(sf, cr, nav, bw) + extra * Tpream - (now - receive_data_time) if
\* that is positive and does not wait otherwise; its next step is the end
\* of the NAV: back to WANT_TRANSMIT, n_retry less one, packet of type DATA.
endsListeningWithData(n) ==
    /\ cfg.CA /\ cur = n /\ inListenPeriod(node[n])
    /\ node[n].receive_data /\ ~node[n].receive_rts
    /\ node'[n] # node[n]

dataNavWait(n, extra) ==
    airtime(packet[n].sf, packet[n].cr, node[n].nav, packet[n].bw)
       + extra * packet[n].Tpream - (now - node[n].receive_data_time)

dataNavStep ==
    \A n \in Nodes :
       /\ endsListeningWithData(n)
          => /\ node'[n].ca_state = start_nav /\ ~node'[n].receive_data
             /\ \E extra \in 0 .. cfg.Wnav :
                   IF dataNavWait(n, extra) > 0
                   THEN cur' = NoNode /\ WakeTime(n)' = now + dataNavWait(n, extra)
                   ELSE cur' = n /\ queue' = queue
       /\ cfg.CA /\ cur = n /\ node[n].ca_state = start_nav /\ node'[n] # node[n]
          => /\ node'[n].ca_state = want_transmit
             /\ node'[n].n_retry = node[n].n_retry - 1
             /\ packet'[n].ptype = dataPacketType
             /\ cur' = n

C34_DataNav == [][dataNavStep]_vars

\* a node has left its listening period for START_NAV without waiting:
\* the NAV of the DATA header it heard was over for every extra
C34_Witness ==
    /\ cfg.CA
    /\ \E n \in Nodes :
          /\ node[n].ca_state = start_nav /\ cur = n
          /\ ~node[n].receive_data
          /\ node[n].receive_data_time > node[n].receive_rts_time
          /\ now > node[n].receive_data_time + cfg.Wnav * packet[n].Tpream
                   + airtime(packet[n].sf, packet[n].cr, node[n].nav,
                             packet[n].bw)

\* ------------------------------------------------------------------------
\* airtime on every sub-GHz setting: one packet is built with a drawn
\* spreading factor, coding rate, bandwidth and payload length, and its
\* type is set to RTS and back to DATA
MaxPayload == 12

CfgAirtime(plen) ==
    [BaseCfg EXCEPT !.nrNodes = 1, !.CA = FALSE, !.packetLength = plen]

InitAirtime ==
    /\ cfg \in {CfgAirtime(l) : l \in 1 .. MaxPayload}
    /\ now = 0 /\ queue = <<>> /\ cur = NoNode
    /\ pc = [n \in Nodes |-> "radio_new"]
    /\ node = [n \in Nodes |-> InitNode(cfg)]
    /\ \E s \in 6 .. 12, c \in 1 .. 4, b \in {125, 250, 500} :
          packet = [n \in Nodes |->
                      myPacket(n, cfg.packetLength, [sf |-> s, bw |-> b, cr |-> c],
                               860000000, nearRssi)]
    /\ packetsAtBS = <<>>
    /\ channel_busy_rts = FALSE /\ channel_busy_data = FALSE
    /\ nrLost = 0 /\ nrCollisions = 0 /\ nrReceived = 0 /\ nrProcessed = 0
    /\ nrRTSLost = 0 /\ nrRTSCollisions = 0 /\ nrRTSReceived = 0
    /\ nrRTSProcessed = 0

NextAirtime == \E n \in Nodes : RadioSetType(n)

SpecAirtime == InitAirtime /\ [][NextAirtime]_vars

\* the formula of the claim, in microseconds:
\* (12.25 + payloadSymbNB) * 2^SF / BW ms
statedAirtime(sf, cr, pl, bw) ==
    LET H == IF sf = 6 THEN 1 ELSE 0
        DE == IF bw = 125 /\ (sf = 11 \/ sf = 12) THEN 1 ELSE 0
        num == 8 * pl - 4 * sf + 28 + 16 - 20 * H
        den == 4 * (sf - 2 * DE)
        ceil == (num + den - 1) \div den
        payloadSymbNB == 8 + (IF ceil * (cr + 4) > 0 THEN ceil * (cr + 4) ELSE 0)
    IN  ((12250 + 1000 * payloadSymbNB) * Pow2(sf)) \div bw

\* C35: on every sub-GHz setting the time on air of a packet is the stated
\* formula of its spreading factor, coding rate, current length and
\* bandwidth, and the time on air of the 5-byte RTS does not exceed that of
\* the DATA packet when the payload has at least 5 bytes.
C35_Airtime ==
    \A n \in Nodes :
       LET p == packet[n] IN
          /\ p.rectime = statedAirtime(p.sf, p.cr, p.pl, p.bw)
          /\ p.ptype = rtsPacketType => p.pl = rtsLength
          /\ p.ptype = dataPacketType => p.pl = p.data_len
          /\ p.ptype = rtsPacketType /\ p.data_len >= rtsLength
             => p.rectime <= statedAirtime(p.sf, p.cr, p.data_len, p.bw)

\* the RTS of a 10-byte packet at SF12, BW125, CR 4/5: 827.392 ms on air
C35_Witness ==
    \E n \in Nodes :
       /\ packet[n].sf = 12 /\ packet[n].bw = 125 /\ packet[n].cr = 1
       /\ packet[n].ptype = rtsPacketType /\ packet[n].data_len = 10
       /\ packet[n].rectime = 827392
       /\ statedAirtime(12, 1, 10, 125) = 991232

\* ------------------------------------------------------------------------
\* reception hints and listening periods
hintOnlyWhileListening ==
    \A n \in Nodes :
       /\ ~(node[n].receive_rts /\ node[n].receive_data)
       /\ ~inListenPeriod(node[n])
          => ~node[n].receive_rts /\ ~node[n].receive_data

\* node n runs the end of a listening period with a hint
endsListeningWithHint(n) ==
    /\ cfg.CA /\ cur = n /\ inListenPeriod(node[n])
    /\ (node[n].receive_rts \/ node[n].receive_data)
    /\ node'[n] # node[n]

hintClearedOnLeaving ==
    \A n \in Nodes :
       endsListeningWithHint(n)
          => /\ node'[n].ca_state = start_nav
             /\ ~node'[n].receive_rts /\ ~node'[n].receive_data

\* C36: a node never holds both reception hints, holds none outside
\* PHASE1_LISTEN and PHASE2_LISTEN, and the step that ends a listening
\* period with a hint clears it and leaves for START_NAV.
C36_HintsWhileListening == []hintOnlyWhileListening /\ [][hintClearedOnLeaving]_vars

\* a node has left a listening period for START_NAV on the RTS hint it took
\* during that period, and holds no hint in its NAV wait
C36_Witness ==
    \E n \in Nodes :
       /\ node[n].ca_state = start_nav /\ cur # n
       /\ ~node[n].receive_rts /\ ~node[n].receive_data
       /\ node[n].receive_rts_time > node[n].receive_data_time
       /\ node[n].receive_rts_time < now /\ now < WakeTime(n)

\* ------------------------------------------------------------------------
\* the NAV that an RTS induces and the DATA that the RTS announces

\* the DATA that m has on air started after the RTS that n heard from m, by
\* the undeferred path: RTS airtime, second listening period (none with
\* CA1), phase-3 backoff
announcedDataOnAir(n, m) ==
    /\ pc[m] = "data_end" /\ now < WakeTime(m)
    /\ packet[m].ptype = dataPacketType
    /\ node[n].receive_rts_from = m
    /\ \E b \in 0 .. cfg.W3 :
          LET rts == airtime(packet[m].sf, packet[m].cr, rtsLength, packet[m].bw)
              listen == IF cfg.CA1 THEN 0 ELSE cfg.WL * packet[m].Tpream + rts
          IN  packet[m].addTime
                 = node[n].receive_rts_time + rts + listen + b * packet[m].Tpream

\* n is at the end of the NAV wait that the RTS of m induced
leavesRtsNav(n, m) ==
    /\ cfg.CA /\ cur = n /\ node[n].ca_state = start_nav
    /\ node[n].receive_rts_time > node[n].receive_data_time
    /\ node[n].receive_rts_from = m
    /\ packet[n].sf = packet[m].sf /\ packet[n].bw = packet[m].bw
    /\ packet[n].cr = packet[m].cr /\ node[n].nav = packet[m].data_len

insideAirtime(n) == inAirtimeWait(n) /\ cur # n /\ now < WakeTime(n)

\* C38: channel_busy_data is true exactly while some node is inside the
\* airtime wait of a DATA transmission, and channel_busy_rts exactly while
\* some node is inside the airtime wait of an RTS transmission, overlapping
\* transmissions included.
C38_FlagsTrackAirtime ==
    /\ (\E n \in onAirData : insideAirtime(n)) => channel_busy_data
    /\ (\E n \in onAirRts : insideAirtime(n)) => channel_busy_rts
    /\ channel_busy_data => onAirData # {}
    /\ channel_busy_rts => onAirRts # {}

\* the part that holds: a raised flag has a transmission of its type
flagHasTransmission ==
    /\ channel_busy_data => onAirData # {}
    /\ channel_busy_rts => onAirRts # {}

\* the flag of a type is down while a transmission of that type is on air
flagDownOnAir ==
    \/ ~channel_busy_data /\ \E n \in onAirData : insideAirtime(n)
    \/ ~channel_busy_rts /\ \E n \in onAirRts : insideAirtime(n)

\* ------------------------------------------------------------------------
\* the durations of the timed waits, with the slotted schedules of
\* experiments 6 and 7
CfgCaSlotted == [CfgCaReliable EXCEPT !.experiment = 6]
CfgCsSlotted == [CfgCsReliable EXCEPT !.experiment = 7]

InitSlotted == cfg \in {CfgCaSlotted, CfgCsSlotted} /\ InitRun

SpecSlotted == InitSlotted /\ [][Next]_vars

\* no timeout was refused, and every pending timeout ends at or after now
waitsNonNegative ==
    /\ \A n \in Nodes : pc[n] # "negative_delay"
    /\ \A i \in 1 .. Len(queue) : queue[i].t >= now

\* C39: every timed wait has a non-negative duration: the schedule wait,
\* slotted schedules of experiments 6 and 7 included, and the backoff,
\* listening, NAV and airtime waits.
C39_WaitsNonNegative == waitsNonNegative

\* the waits other than the slotted schedule: a task is never suspended
\* into the past
pendingWaitsAhead == \A i \in 1 .. Len(queue) : queue[i].t >= now

\* ------------------------------------------------------------------------
\* the retry histograms

\* node n counts an RTS, a DATA transmission: the histogram update follows
countsRts(n) == node'[n].n_rts_sent = node[n].n_rts_sent + 1
countsData(n) == node'[n].n_data_sent = node[n].n_data_sent + 1

rtsBinInRange ==
    \A n \in Nodes :
       countsRts(n)
          => (cfg.n_retry_rts - node[n].n_retry_rts) \in 0 .. cfg.n_retry_rts

dataBinInRange ==
    \A n \in Nodes :
       countsData(n)
          => (cfg.n_retry - node[n].n_retry) \in 0 .. (cfg.n_retry - 1)

\* C40: at every RTS transmission the index n_retry_rts - node.n_retry_rts
\* lies in 0 .. n_retry_rts, at every DATA transmission the index
\* n_retry - node.n_retry lies in 0 .. n_retry - 1, and no histogram update
\* ends the run, whatever the sign of n_retry_rts.
C40_RetryBinsInRange ==
    /\ [][rtsBinInRange /\ dataBinInRange]_vars
    /\ [](\A n \in Nodes : pc[n] # "index_error")

\* what holds of it: the DATA histogram in every configuration, the RTS
\* histogram with a positive limit
retryBinsPositiveLimit ==
    [][dataBinInRange /\ (cfg.n_retry_rts > 0 => rtsBinInRange)]_vars

====
